---- MODULE Spec2Model ----
(***************************************************************************)
(* A model of pyskyq's EPG aggregation core: the Channel value type and    *)
(* merge_channels (channel.py), the two listing fetchers (xmltvlisting.py, *)
(* listing.py) and the EPG catalog (epg.py).                               *)
(*                                                                         *)
(* A Python value is a record [ty, v]: ty is its type ("none", "str",     *)
(* "url") and v a code.  The strings of the payloads are Str(1..NumVals); *)
(* the upper-cased spelling of Str(n) is Str(n + NumVals), so str.lower   *)
(* is not the identity; Str(0) is the string 'None'.                      *)
(***************************************************************************)
EXTENDS Integers, Sequences, FiniteSets, TLC

VARIABLES
    chan_a, chan_b,         \* the two records handed to merge_channels
    merged_ab, merged_ba,   \* merge_channels(a, b) and merge_channels(b, a)
    chan_pc,                \* "init" | "merged"
    \* XMLTVListing (xmltvlisting.py) and the files it writes
    xl_downloading,         \* XMLTVListing._downloading
    xl_downloaded,          \* XMLTVListing._downloaded
    xl_last_modified,       \* XMLTVListing._last_modified
    fs_tmp,                 \* the file at _full_path.with_suffix('.tmp')
    fs_dest,                \* the file at _full_path (file_path)
    fetchers,               \* the callers (threads or tasks) that may call fetch()
    fetcher,                \* per caller: where its fetch() call stands
    nfetch,                 \* number of fetch() calls begun so far
    \* Listing (listing.py), its file and the server it talks to
    lf_pc,                  \* "idle" | "fetching" | "done" | "failed"
    lf_server,              \* the server: [mode, doc, last_modified]
    lf_range_size,          \* the range_size argument of fetch()
    lf_byte_start,          \* byte_start
    lf_byte_stop,           \* byte_stop
    lf_total,               \* content_entire_payload_size
    lf_last_modified,       \* Listing._last_modified
    lf_file,                \* the file at _full_path
    lf_file0,               \* that file when the running fetch() began
    lf_requests,            \* the range requests of the running fetch()
    lf_nfetch,              \* number of fetch() calls begun so far
    \* EPG (epg.py): the catalog, the thread that loads it, a reader thread
    epg_channels,           \* EPG._channels
    epg_nloads,             \* number of load_skyq_channel_data() calls begun
    ld_pc,                  \* load_skyq_channel_data: "idle" | "listed" | "remove" | "append" | "failed"
    ld_sid_list,            \* sid_list of _load_channel_details
    ld_i,                   \* position of its for loop in sid_list
    ld_new_chan,            \* new_chan
    rd_pc,                  \* get_channel_by_sid in another thread: "idle" | "iter" | "found" | "notfound"
    rd_sid,                 \* its sid, after str(sid)
    rd_arg,                 \* the sid argument it was called with
    rd_idx,                 \* index of its list iterator
    rd_result,              \* the record it returned
    rd_present0,            \* whether a record with that sid was in the catalog when it began
    ap_pc,                  \* the last apply_XMLTVListing call: "idle" | "done" | "raised"
    \* more results of the pure Channel functions
    chan_c,                 \* a third record
    merged_ab_c,            \* merge_channels(merge_channels(a, b), c)
    merged_a_bc,            \* merge_channels(a, merge_channels(b, c))
    json_doc,               \* the JSON document handed to channel_from_json
    json_out,               \* what channel_from_json did: [raised, chan]
    eq_out,                 \* results of ==: [ab, ba, a_str]
    hash_out,               \* results of hash(): a function from the name of a record to [raised, h]
    \* the Channel objects as Python holds them: by reference
    heap_objs,              \* object id -> [chan_dict: reference of its _chan_dict, sources: _sources]
    heap_dicts,             \* reference -> the dict stored there
    heap_op,                \* the last call: [name, self, other, result] (object ids, 0 for none)
    \* EPG.get_channel
    gc_args,                \* arguments of the last call: [name, fuzzy_match, include_timeshift, quality_flag, limit]
    gc_out,                 \* what it did: [raised, channels]
    \* the XMLTV cronjobs of the EPG
    cron_jobs,              \* EPG._jobs: CronJob records [listing, schedule, thread]
    cron_threads,           \* the CronThread objects, by thread id: [loop, armed, task, listing, ticks, last]
    cron_flags,             \* XMLTVListing object id -> [downloading, downloaded]
    cron_out,               \* the last call on the EPG: [op, listing, raised, value]
    cron_ncalls,            \* number of add / delete calls made
    \* XMLTVListing.parse_channels
    xp_out,                 \* the last call: [called, downloaded, downloading, raised, read, channels]
    \* the AsyncThread singleton
    at_loop,                \* its event loop: "running" | "stopped"
    at_sentinel,            \* _shutdown_sentinel
    at_tasks,               \* the tasks of the loop: [state, steps, cleanup, after]
    at_cancel,              \* the _cancel_all_tasks coroutine of shutdown(): "none" | "scheduled" | "done"
    at_pc,                  \* the caller of shutdown(): "idle" | "returned"
    \* XMLTVListing objects and the directories they make
    xi_dirs,                \* the directories that exist
    xi_files,               \* the plain files that exist
    xi_objs,                \* the objects constructed: [url, path, hash, filename, full_path]
    xi_out,                 \* the last constructor call: [raised]
    \* the AsyncThread class and its singleton
    sg_instance,            \* AsyncThread._instance: the object's id, 0 for None
    sg_loops,               \* number of event loops created
    sg_loop,                \* the loop of the instance: "none" | "running" | "stopped"
    sg_threads,             \* the threads started, in order: "alive" | "dead" | "failed"
    sg_thread,              \* self.thread: its position in sg_threads, 0 for None
    sg_sentinel,            \* _shutdown_sentinel
    sg_stop,                \* a shutdown()'s cancel-and-stop is queued in the loop
    sg_refs,                \* the instance each construction returned
    sg_ncalls,              \* number of constructions and shutdown() calls
    \* CronThread objects under construction
    ct_threads,             \* [pc, run_pc, loop, ran, used]
    \* the Status listener
    st_pc,                  \* _ws_subscribe: "connecting" | "listening" | "ended"
    st_payload,             \* its local variable payload: "unbound" or a payload
    st_received,            \* the payloads ws.recv() returned, in order
    st_handled,             \* the payloads given to _handle, in order
    st_raised,              \* the exception that ended _ws_subscribe, "" for none
    st_sentinel,            \* _shutdown_sentinel
    st_nevents              \* number of websocket events so far

chanVars == <<chan_a, chan_b, merged_ab, merged_ba, chan_pc>>
xlVars == <<xl_downloading, xl_downloaded, xl_last_modified, fs_tmp, fs_dest,
            fetchers, fetcher, nfetch>>

lfVars == <<lf_pc, lf_server, lf_range_size, lf_byte_start, lf_byte_stop,
            lf_total, lf_last_modified, lf_file, lf_file0, lf_requests, lf_nfetch>>

epgVars == <<epg_channels, epg_nloads, ld_pc, ld_sid_list, ld_i, ld_new_chan,
             rd_pc, rd_sid, rd_arg, rd_idx, rd_result, rd_present0, ap_pc>>

pureVars == <<chan_c, merged_ab_c, merged_a_bc, json_doc, json_out, eq_out,
              hash_out>>

heapVars == <<heap_objs, heap_dicts, heap_op>>

searchVars == <<gc_args, gc_out>>

cronVars == <<cron_jobs, cron_threads, cron_flags, cron_out, cron_ncalls>>

parseVars == <<xp_out>>

atVars == <<at_loop, at_sentinel, at_tasks, at_cancel, at_pc>>

xiVars == <<xi_dirs, xi_files, xi_objs, xi_out>>

sgVars == <<sg_instance, sg_loops, sg_loop, sg_threads, sg_thread, sg_sentinel,
            sg_stop, sg_refs, sg_ncalls>>

ctVars == <<ct_threads>>

stVars == <<st_pc, st_payload, st_received, st_handled, st_raised, st_sentinel,
            st_nevents>>

lateVars == <<xiVars, sgVars, ctVars, stVars>>

moreVars == <<searchVars, cronVars, parseVars, atVars, lateVars>>

vars == <<chanVars, xlVars, lfVars, epgVars, pureVars, heapVars, moreVars>>

-----------------------------------------------------------------------------
(* Bounds *)

\* number of distinct non-None string values a payload field may take
NumVals == 2

\* longest document a server serves to XMLTVListing.fetch, in bytes
MaxDocLen == 2

\* number of bytes the HTTP client hands to the fetch callback at a time
ChunkLen == 1

\* number of fetch() calls made on a listing
MaxFetches == 2

\* largest range_size given to Listing.fetch
MaxRangeSize == 3

\* largest document a server serves to Listing.fetch, in bytes
MaxTotal == 6

\* most services in one answer of /as/services
MaxChannels == 2

\* number of load_skyq_channel_data() calls
MaxLoads == 1

-----------------------------------------------------------------------------
(* constants.py *)

None == [ty |-> "none", v |-> 0]
Str(n) == [ty |-> "str", v |-> n]
Url(n) == [ty |-> "url", v |-> n]
PyInt(n) == [ty |-> "int", v |-> n]
PyBool(n) == [ty |-> "bool", v |-> n]
PyDict(f) == [ty |-> "dict", v |-> f]

no_source == 0
skyq_service_summary == 1
skyq_service_detail == 2
xml_tv == 4

\* CHANNEL_FIELD_MAP: human-friendly attribute names to Sky's field names
CHANNEL_FIELD_MAP ==
    [n \in {"number", "quality", "id", "name", "desc"} |->
        CASE n = "number"  -> "c"
          [] n = "quality" -> "sf"
          [] n = "id"      -> "sid"
          [] n = "name"    -> "t"
          [] n = "desc"    -> "upgradeMessage"]

\* bitwise OR of two CHANNELSOURCES flags (IntFlag.__or__), three bits wide
SourcesOr(x, y) ==
    LET Bit(v, w) == (v \div w) % 2
        OrBit(w) == IF Bit(x, w) = 1 \/ Bit(y, w) = 1 THEN w ELSE 0
    IN  OrBit(skyq_service_summary) + OrBit(skyq_service_detail) + OrBit(xml_tv)

\* flags & flag == flag
HasSource(flags, flag) == (flags \div flag) % 2 = 1

-----------------------------------------------------------------------------
(* channel.py: the Channel value type *)

Vals == {Str(n) : n \in 1..NumVals}

\* str.upper / str.lower on the modelled strings
Upper(s) == IF s.v \in 1..NumVals THEN Str(s.v + NumVals) ELSE s
Lower(s) == IF s.v \in (NumVals + 1)..(2 * NumVals) THEN Str(s.v - NumVals) ELSE s

\* d[k] = v on a Python dict (adds the key when it is missing)
DictSet(d, k, v) ==
    [x \in (DOMAIN d) \cup {k} |-> IF x = k THEN v ELSE d[x]]

\* {**d, **e}, also dict.update: e's values win on a key clash
DictUpdate(d, e) ==
    [x \in (DOMAIN d) \cup (DOMAIN e) |-> IF x \in DOMAIN e THEN e[x] ELSE d[x]]

\* Channel.__new__: the four canonical keys set to None, no source
Channel_new ==
    [chan_dict |-> [k \in {"sid", "c", "t", "xmltv_id"} |-> None],
     sources   |-> no_source]

\* Channel.__getattr__: the raw key first, then the friendly alias, else None
Channel_getattr(chan, name) ==
    IF name \in DOMAIN chan.chan_dict
    THEN chan.chan_dict[name]
    ELSE IF name \in DOMAIN CHANNEL_FIELD_MAP
         THEN IF CHANNEL_FIELD_MAP[name] \in DOMAIN chan.chan_dict
              THEN chan.chan_dict[CHANNEL_FIELD_MAP[name]]
              ELSE None
         ELSE None

\* isinstance(x, Channel)
IsChannel(x) == "chan_dict" \in DOMAIN x

\* mutant: records with the same attributes are equal whatever their sources
Channel_eq_dict_only(self, other) ==
    IF ~IsChannel(other) THEN FALSE ELSE self.chan_dict = other.chan_dict

\* Channel.__eq__ (lines 157-161)
Channel_eq(self, other) ==
    IF ~IsChannel(other)
    THEN FALSE
    ELSE self.chan_dict = other.chan_dict /\ self.sources = other.sources

\* hash() of an attribute value or of a flag: equal values hash equally
py_hash(x) == [h |-> x]

\* mutant: the hash of a Sky record takes its sources into account
Channel_hash_with_sources(chan) ==
    IF HasSource(chan.sources, skyq_service_summary)
    THEN [raised |-> "", h |-> py_hash([ty |-> chan.chan_dict["t"].ty,
                                        v  |-> chan.chan_dict["t"].v + 100 * chan.sources])]
    ELSE IF HasSource(chan.sources, xml_tv)
    THEN IF "xmltv_display_name" \in DOMAIN chan.chan_dict
         THEN [raised |-> "", h |-> py_hash(chan.chan_dict["xmltv_display_name"])]
         ELSE [raised |-> "KeyError", h |-> py_hash(None)]
    ELSE [raised |-> "", h |-> py_hash(PyInt(no_source))]

\* Channel.__hash__ (lines 138-155): raised is the failed assert of line 143
\* or the KeyError of a record with no xmltv_display_name key
Channel_hash(chan) ==
    IF HasSource(chan.sources, skyq_service_summary) /\ HasSource(chan.sources, xml_tv)
    THEN IF "xmltv_display_name" \notin DOMAIN chan.chan_dict
         THEN [raised |-> "KeyError", h |-> py_hash(None)]
         ELSE IF chan.chan_dict["t"] # chan.chan_dict["xmltv_display_name"]
         THEN [raised |-> "AssertionError", h |-> py_hash(None)]
         ELSE [raised |-> "", h |-> py_hash(chan.chan_dict["t"])]
    ELSE IF HasSource(chan.sources, skyq_service_summary)
    THEN [raised |-> "", h |-> py_hash(chan.chan_dict["t"])]
    ELSE IF HasSource(chan.sources, xml_tv)
    THEN IF "xmltv_display_name" \in DOMAIN chan.chan_dict
         THEN [raised |-> "", h |-> py_hash(chan.chan_dict["xmltv_display_name"])]
         ELSE [raised |-> "KeyError", h |-> py_hash(None)]
    ELSE [raised |-> "", h |-> py_hash(PyInt(no_source))]

load_skyq_summary_data(chan, payload) ==
    [chan_dict |-> DictUpdate(chan.chan_dict, payload),
     sources   |-> SourcesOr(chan.sources, skyq_service_summary)]

load_skyq_detail_data(chan, detail_dict) ==
    [chan_dict |-> DictUpdate(chan.chan_dict, detail_dict.details),
     sources   |-> SourcesOr(chan.sources, skyq_service_detail)]

\* base_url.join(URL(src)): the URL whose text is the base followed by src
\* (string code src + 2 * NumVals), a value of type URL and not a string
UrlJoin(src) == Url(src.v + 2 * NumVals)

\* an XML <channel> element is [id, display_name, icon]; a child that is
\* missing from the element is None here and sets no key
load_xmltv_data(chan, xml_chan) ==
    LET d0 == DictSet(chan.chan_dict, "xmltv_id", xml_chan.id)
        d1 == IF xml_chan.icon # None
              THEN DictSet(d0, "xmltv_icon_url", UrlJoin(xml_chan.icon))
              ELSE d0
        d2 == IF xml_chan.display_name # None
              THEN DictSet(d1, "xmltv_display_name", xml_chan.display_name)
              ELSE d1
    IN  [chan_dict |-> d2,
         sources   |-> SourcesOr(chan.sources, xml_tv)]

channel_from_skyq_service(skyq_chan) ==
    load_skyq_summary_data(Channel_new, skyq_chan)

channel_from_xmltv_list(xml_chan) ==
    load_xmltv_data(Channel_new, xml_chan)

\* the non-null-wins fix-up of one exception field: attr is the name the
\* code reads through __getattr__, key is the dict key it writes
MergeFix(d, chan_a_, chan_b_, attr, key) ==
    LET va == Channel_getattr(chan_a_, attr)
        vb == Channel_getattr(chan_b_, attr)
        e1 == IF va # None /\ vb = None THEN DictSet(d, key, va) ELSE d
    IN  IF vb # None /\ va = None THEN DictSet(e1, key, vb) ELSE e1

\* mutant: the exception fields get no fix-up at all (plain b-wins union)
merge_channels_plain_union(a, b) ==
    [chan_dict |-> DictUpdate(a.chan_dict, b.chan_dict),
     sources   |-> SourcesOr(a.sources, b.sources)]

\* mutant: the xmltv_id fix-up is left out
merge_channels_no_xmltv_fix(a, b) ==
    LET d0 == DictUpdate(a.chan_dict, b.chan_dict)
        d1 == MergeFix(d0, a, b, "id", "sid")
        d2 == MergeFix(d1, a, b, "c", "c")
        d3 == MergeFix(d2, a, b, "t", "t")
    IN  [chan_dict |-> d3,
         sources   |-> SourcesOr(a.sources, b.sources)]

\* mutant: on a key clash a's value wins
merge_channels_a_wins(a, b) ==
    LET d0 == DictUpdate(b.chan_dict, a.chan_dict)
        d1 == MergeFix(d0, a, b, "id", "sid")
        d2 == MergeFix(d1, a, b, "c", "c")
        d3 == MergeFix(d2, a, b, "t", "t")
        d4 == MergeFix(d3, a, b, "xmltv_id", "xmltv_id")
    IN  [chan_dict |-> d4,
         sources   |-> SourcesOr(a.sources, b.sources)]

\* mutant: the merged record keeps the sources of b alone
merge_channels_b_sources(a, b) ==
    LET d0 == DictUpdate(a.chan_dict, b.chan_dict)
        d1 == MergeFix(d0, a, b, "id", "sid")
        d2 == MergeFix(d1, a, b, "c", "c")
        d3 == MergeFix(d2, a, b, "t", "t")
        d4 == MergeFix(d3, a, b, "xmltv_id", "xmltv_id")
    IN  [chan_dict |-> d4,
         sources   |-> b.sources]

\* mutant: when a and b both define an exception field, the merge drops it
MergeFixDropClash(d, chan_a_, chan_b_, attr, key) ==
    LET va == Channel_getattr(chan_a_, attr)
        vb == Channel_getattr(chan_b_, attr)
    IN  IF va # None /\ vb # None /\ va # vb
        THEN DictSet(d, key, None)
        ELSE MergeFix(d, chan_a_, chan_b_, attr, key)

merge_channels_drop_clash(a, b) ==
    LET d0 == DictUpdate(a.chan_dict, b.chan_dict)
        d1 == MergeFixDropClash(d0, a, b, "id", "sid")
        d2 == MergeFixDropClash(d1, a, b, "c", "c")
        d3 == MergeFixDropClash(d2, a, b, "t", "t")
        d4 == MergeFixDropClash(d3, a, b, "xmltv_id", "xmltv_id")
    IN  [chan_dict |-> d4,
         sources   |-> SourcesOr(a.sources, b.sources)]

merge_channels(a, b) ==
    LET d0 == DictUpdate(a.chan_dict, b.chan_dict)
        d1 == MergeFix(d0, a, b, "id", "sid")
        d2 == MergeFix(d1, a, b, "c", "c")
        d3 == MergeFix(d2, a, b, "t", "t")
        d4 == MergeFix(d3, a, b, "xmltv_id", "xmltv_id")
    IN  [chan_dict |-> d4,
         sources   |-> SourcesOr(a.sources, b.sources)]

-----------------------------------------------------------------------------
(* xmltvlisting.py: XMLTVListing.fetch *)

\* A byte of a transfer or of a file: a plain byte, or a byte of a gzip
\* stream (z).  A gzip stream is its header followed by the deflated bytes.
Byte(n) == [z |-> FALSE, b |-> n]
Gz(n) == [z |-> TRUE, b |-> n]
GzHeader == Gz(0)

\* the document of n bytes
DocOfLen(n) == [i \in 1..n |-> Byte(i)]
Docs == {DocOfLen(n) : n \in 1..MaxDocLen}

\* gzip.compress
gzip_compress(doc) == <<GzHeader>> \o [i \in 1..Len(doc) |-> Gz(doc[i].b)]

\* the body of an error response (an HTML error page)
ErrorPage == <<Byte(0)>>

\* the pieces in which the client hands a body to the callback
Chunked(body) ==
    [i \in 1..((Len(body) + ChunkLen - 1) \div ChunkLen) |->
        SubSeq(body, (i - 1) * ChunkLen + 1,
               IF i * ChunkLen < Len(body) THEN i * ChunkLen ELSE Len(body))]

\* a file: absent, or present with its bytes
NoFile == [exists |-> FALSE, data |-> <<>>]
FileOf(bytes) == [exists |-> TRUE, data |-> bytes]

\* open(path, 'ab') and write: creates the file when it is absent
FileAppend(file, bytes) == FileOf(file.data \o bytes)

\* zlib.decompressobj(wbits=16 + MAX_WBITS).decompress(chunk): st is what the
\* object expects next ("header" or "body"); err is zlib.error
RECURSIVE Inflate(_, _, _, _)
Inflate(st, chunk, i, out) ==
    IF i > Len(chunk)
    THEN [err |-> FALSE, out |-> out, st |-> st]
    ELSE IF st = "header"
         THEN IF chunk[i] = GzHeader
              THEN Inflate("body", chunk, i + 1, out)
              ELSE [err |-> TRUE, out |-> <<>>, st |-> st]
         ELSE IF chunk[i].z /\ chunk[i] # GzHeader
              THEN Inflate(st, chunk, i + 1, Append(out, Byte(chunk[i].b)))
              ELSE [err |-> TRUE, out |-> <<>>, st |-> st]

\* utils.parse_http_date: the header text turned into a datetime
parse_http_date(s) == [ty |-> "datetime", v |-> s.v]

(* listing.py: the server side and the range arithmetic of Listing.fetch *)

\* How a server treats the GET with a Range header:
\*   "range"  serves the requested range with 206 and Content-Range
\*            (416 when the range starts at or beyond the end),
\*   "full"   ignores the Range header and serves the document with 200,
\*   "error"  answers with an error status and an error page.
ListingServers ==
    {[mode |-> m, status |-> st, doc |-> DocOfLen(n), last_modified |-> lm] :
        <<m, st>> \in {<<"range", 206>>, <<"full", 200>>,
                       <<"error", 404>>, <<"error", 500>>, <<"error", 416>>},
        n \in 1..MaxTotal, lm \in {None, Str(1)}}

\* the server's answer to "Range: bytes=start-stop"
ListingAnswer(server, start, stop) ==
    LET T == Len(server.doc)
        last == IF stop < T - 1 THEN stop ELSE T - 1
    IN  CASE server.mode = "range" /\ start < T ->
                 [status |-> 206, body |-> SubSeq(server.doc, start + 1, last + 1),
                  total |-> T]
          [] server.mode = "range" /\ start >= T ->
                 [status |-> 416, body |-> <<>>, total |-> T]
          [] server.mode = "full" ->
                 [status |-> 200, body |-> server.doc, total |-> T]
          [] OTHER ->
                 [status |-> server.status, body |-> ErrorPage, total |-> T]

\* mutant: the loop ends only when byte_start is beyond byte_stop
next_range_late_break(byte_start, byte_stop, range_size, total) ==
    IF byte_stop + range_size + 1 > total
    THEN [byte_start |-> byte_stop + 1, byte_stop |-> total,
          brk |-> byte_stop + 1 > total]
    ELSE [byte_start |-> byte_stop + 1,
          byte_stop |-> byte_stop + 1 + range_size,
          brk |-> FALSE]

\* lines 198-206: the next window after a 206, and whether the loop ends
next_range(byte_start, byte_stop, range_size, total) ==
    IF byte_stop + range_size + 1 > total
    THEN [byte_start |-> byte_stop + 1, byte_stop |-> total,
          brk |-> byte_stop + 1 >= total]
    ELSE [byte_start |-> byte_stop + 1,
          byte_stop |-> byte_stop + 1 + range_size,
          brk |-> FALSE]

LfInitWith(pc) ==
    /\ lf_pc = pc
    /\ lf_server = CHOOSE srv \in ListingServers : TRUE
    /\ lf_range_size = 1
    /\ lf_byte_start = 0
    /\ lf_byte_stop = 0
    /\ lf_total = 0
    /\ lf_last_modified = None
    /\ lf_file = NoFile
    /\ lf_file0 = NoFile
    /\ lf_requests = <<>>
    /\ lf_nfetch = 0

LfParked == LfInitWith("parked")

(* epg.py: EPG.__init__ *)

\* lines 47-60: no channels, nothing running
EpgInitWith(pc) ==
    /\ epg_channels = <<>>
    /\ epg_nloads = 0
    /\ ld_pc = pc
    /\ ld_sid_list = <<>>
    /\ ld_i = 0
    /\ ld_new_chan = Channel_new
    /\ rd_pc = pc
    /\ rd_sid = None
    /\ rd_arg = None
    /\ rd_idx = 0
    /\ rd_result = Channel_new
    /\ rd_present0 = FALSE
    /\ ap_pc = pc

EpgParked == EpgInitWith("parked")

(* channel.py: records not in use *)

ChanParked ==
    /\ chan_a = Channel_new
    /\ chan_b = Channel_new
    /\ merged_ab = Channel_new
    /\ merged_ba = Channel_new
    /\ chan_pc = "parked"

PureParked ==
    /\ chan_c = Channel_new
    /\ merged_ab_c = Channel_new
    /\ merged_a_bc = Channel_new
    /\ json_doc = <<>>
    /\ json_out = [raised |-> "", chan |-> Channel_new]
    /\ eq_out = [ab |-> FALSE, ba |-> FALSE, a_str |-> FALSE]
    /\ hash_out = <<>>

(* channel.py: no Channel objects allocated *)

HeapParked ==
    /\ heap_objs = <<>>
    /\ heap_dicts = <<>>
    /\ heap_op = [name |-> "parked", self |-> 0, other |-> 0, result |-> 0]

(* epg.py: no get_channel call made *)

SearchParked ==
    /\ gc_args = <<>>
    /\ gc_out = [raised |-> "", channels |-> <<>>]

(* epg.py: no cronjob added, no call made *)

CronInitWith(op) ==
    /\ cron_jobs = <<>>
    /\ cron_threads = <<>>
    /\ cron_flags = <<>>
    /\ cron_out = [op |-> op, listing |-> 0, raised |-> "", value |-> <<>>]
    /\ cron_ncalls = 0

CronParked == CronInitWith("parked")

(* xmltvlisting.py: parse_channels not called *)

ParseParked ==
    xp_out = [called |-> FALSE, downloaded |-> FALSE, downloading |-> FALSE,
              raised |-> "", read |-> FALSE, channels |-> <<>>]

(* asyncthread.py: no AsyncThread made *)

AtInitWith(loop, tasks) ==
    /\ at_loop = loop
    /\ at_sentinel = FALSE
    /\ at_tasks = tasks
    /\ at_cancel = "none"
    /\ at_pc = "idle"

AtParked == AtInitWith("none", <<>>)

(* xmltvlisting.py: no XMLTVListing made; only the working directory exists *)

XiInitWith(dirs, files) ==
    /\ xi_dirs = dirs
    /\ xi_files = files
    /\ xi_objs = <<>>
    /\ xi_out = [raised |-> ""]

XiParked == XiInitWith({}, {})

(* asyncthread.py: the class before its first construction *)

SgInitWith(n) ==
    /\ sg_instance = 0
    /\ sg_loops = 0
    /\ sg_loop = "none"
    /\ sg_threads = <<>>
    /\ sg_thread = 0
    /\ sg_sentinel = FALSE
    /\ sg_stop = FALSE
    /\ sg_refs = <<>>
    /\ sg_ncalls = n

SgParked == SgInitWith(-1)

(* cronthread.py: no CronThread made *)

CtParked == ct_threads = <<>>

(* status.py: the listener not started *)

StInitWith(pc) ==
    /\ st_pc = pc
    /\ st_payload = "unbound"
    /\ st_received = <<>>
    /\ st_handled = <<>>
    /\ st_raised = ""
    /\ st_sentinel = FALSE
    /\ st_nevents = 0

StParked == StInitWith("parked")

LateParked == XiParked /\ SgParked /\ CtParked /\ StParked

MoreParked == SearchParked /\ CronParked /\ ParseParked /\ AtParked /\ LateParked


\* what a server answers to the GET: status, body, Last-Modified header (or
\* None), and doc, the document a 200 response carries
OkResponses ==
    {[status |-> 200, body |-> b, last_modified |-> lm, doc |-> d] :
        <<d, b>> \in UNION {{<<x, x>>, <<x, gzip_compress(x)>>} : x \in Docs},
        lm \in {None, Str(1)}}
ErrorResponses ==
    {[status |-> st, body |-> b, last_modified |-> None, doc |-> <<>>] :
        st \in {404, 500}, b \in {<<>>, ErrorPage}}
Responses == OkResponses \cup ErrorResponses

Tasks == {1, 2}

IdleFetcher ==
    [pc |-> "idle", resp |-> CHOOSE r \in ErrorResponses : TRUE, pos |-> 0,
     compressed_payload |-> TRUE, decompression_obj |-> "header",
     dest0 |-> NoFile, downloaded0 |-> FALSE]

XlInitWith(callers) ==
    /\ xl_downloading = FALSE
    /\ xl_downloaded = FALSE
    /\ xl_last_modified = None
    /\ fs_tmp = NoFile
    /\ fs_dest = NoFile
    /\ fetchers = callers
    /\ fetcher = [t \in Tasks |-> IdleFetcher]
    /\ nfetch = 0

XlParked == XlInitWith({})

Fetching == {t \in fetchers : fetcher[t].pc = "fetching"}

\* lines 178-190: fetch() is entered; the request is sent and the server
\* decides its answer
fetch_begin(t, resp) ==
    /\ t \in fetchers
    /\ fetcher[t].pc # "fetching"
    /\ nfetch < MaxFetches
    /\ nfetch' = nfetch + 1
    /\ xl_downloading' = TRUE
    /\ fetcher' = [fetcher EXCEPT ![t] =
           [pc |-> "fetching", resp |-> resp, pos |-> 0,
            compressed_payload |-> TRUE, decompression_obj |-> "header",
            dest0 |-> fs_dest, downloaded0 |-> xl_downloaded]]
    /\ UNCHANGED <<xl_downloaded, xl_last_modified, fs_tmp, fs_dest, fetchers>>

\* lines 192-206: chunk_processor, called with the next piece of the body
chunk_processor(t) ==
    LET f == fetcher[t]
        chunks == Chunked(f.resp.body)
        bytechunk == chunks[f.pos + 1]
        r == Inflate(f.decompression_obj, bytechunk, 1, <<>>)
    IN  /\ t \in fetchers
        /\ f.pc = "fetching"
        /\ f.pos < Len(chunks)
        /\ IF f.compressed_payload
           THEN IF ~r.err
                THEN /\ fs_tmp' = FileAppend(fs_tmp, r.out)
                     /\ fetcher' = [fetcher EXCEPT ![t].pos = f.pos + 1,
                                                   ![t].decompression_obj = r.st]
                ELSE /\ fs_tmp' = FileAppend(fs_tmp, bytechunk)
                     /\ fetcher' = [fetcher EXCEPT ![t].pos = f.pos + 1,
                                                   ![t].compressed_payload = FALSE]
           ELSE /\ fs_tmp' = FileAppend(fs_tmp, bytechunk)
                /\ fetcher' = [fetcher EXCEPT ![t].pos = f.pos + 1]
        /\ UNCHANGED <<xl_downloading, xl_downloaded, xl_last_modified, fs_dest,
                       fetchers, nfetch>>

\* asks.get raises (connection lost, timeout) before, between or after the
\* chunks: the exception leaves fetch(), which has no handler
fetch_raise(t) ==
    /\ t \in fetchers
    /\ fetcher[t].pc = "fetching"
    /\ fetcher' = [fetcher EXCEPT ![t].pc = "failed"]
    /\ UNCHANGED <<xl_downloading, xl_downloaded, xl_last_modified, fs_tmp,
                   fs_dest, fetchers, nfetch>>

\* lines 215-225: asks.get has returned the response, whatever its status
fetch_finish(t) ==
    LET f == fetcher[t]
    IN  /\ t \in fetchers
        /\ f.pc = "fetching"
        /\ f.pos = Len(Chunked(f.resp.body))
        /\ xl_last_modified' =
               IF f.resp.last_modified # None
               THEN parse_http_date(f.resp.last_modified)
               ELSE xl_last_modified
        /\ IF fs_tmp.exists
           THEN \* shutil.move(newfile, self._full_path)
                /\ fs_dest' = fs_tmp
                /\ fs_tmp' = NoFile
                /\ xl_downloading' = FALSE
                /\ xl_downloaded' = TRUE
                /\ fetcher' = [fetcher EXCEPT ![t].pc = "done"]
           ELSE \* no chunk was written: shutil.move raises FileNotFoundError
                /\ fetcher' = [fetcher EXCEPT ![t].pc = "failed"]
                /\ UNCHANGED <<fs_dest, fs_tmp, xl_downloading, xl_downloaded>>
        /\ UNCHANGED <<fetchers, nfetch>>

FetchBegin ==
    /\ \E t \in Tasks, resp \in Responses : fetch_begin(t, resp)
    /\ UNCHANGED <<chanVars, lfVars, epgVars, pureVars, heapVars, moreVars>>

FetchChunk ==
    /\ \E t \in Tasks : chunk_processor(t)
    /\ UNCHANGED <<chanVars, lfVars, epgVars, pureVars, heapVars, moreVars>>

FetchRaise ==
    /\ \E t \in Tasks : fetch_raise(t)
    /\ UNCHANGED <<chanVars, lfVars, epgVars, pureVars, heapVars, moreVars>>

FetchFinish ==
    /\ \E t \in Tasks : fetch_finish(t)
    /\ UNCHANGED <<chanVars, lfVars, epgVars, pureVars, heapVars, moreVars>>

XlNext == FetchBegin \/ FetchChunk \/ FetchRaise \/ FetchFinish

\* one caller: fetch() calls follow one another
FetchSeqInit ==
    /\ HeapParked
    /\ MoreParked
    /\ EpgParked
    /\ XlInitWith({1})
    /\ ChanParked
    /\ PureParked
    /\ LfParked

SpecFetchSeq == FetchSeqInit /\ [][XlNext]_vars

\* two callers (a cron thread's cycle and a run_now or direct call)
FetchInit ==
    /\ HeapParked
    /\ MoreParked
    /\ EpgParked
    /\ XlInitWith(Tasks)
    /\ ChanParked
    /\ PureParked
    /\ LfParked

SpecFetch == FetchInit /\ [][XlNext]_vars

\* a gzip stream damaged on its way: one byte after the header is not a
\* byte of the stream, so that decompress raises zlib.error where it meets it
DamagedAt(body, k) == [i \in 1..Len(body) |-> IF i = k THEN Byte(body[i].b) ELSE body[i]]
DamagedResponses ==
    {[status |-> 200, body |-> DamagedAt(gzip_compress(d), k),
      last_modified |-> None, doc |-> d] :
        d \in Docs, k \in 2..(MaxDocLen + 1)}

FetchBeginDamaged ==
    /\ \E t \in Tasks, resp \in DamagedResponses : fetch_begin(t, resp)
    /\ UNCHANGED <<chanVars, lfVars, epgVars, pureVars, heapVars, moreVars>>

FetchDamagedInit == FetchSeqInit

FetchDamagedNext ==
    \/ FetchBegin
    \/ FetchBeginDamaged
    \/ FetchChunk
    \/ FetchRaise
    \/ FetchFinish

\* one caller, and servers that also send damaged gzip streams
SpecFetchDamaged == FetchDamagedInit /\ [][FetchDamagedNext]_vars

-----------------------------------------------------------------------------
(* listing.py: Listing.fetch *)

\* lines 166-172: fetch(range_size=S) is entered; the file is opened 'wb'
Listing_fetch_begin ==
    /\ lf_pc \in {"idle", "done", "failed"}
    /\ lf_nfetch < MaxFetches
    /\ \E S \in 1..MaxRangeSize, srv \in ListingServers :
           /\ lf_range_size' = S
           /\ lf_server' = srv
           /\ lf_byte_stop' = S - 1
    /\ lf_byte_start' = 0
    /\ lf_nfetch' = lf_nfetch + 1
    /\ lf_file0' = lf_file
    /\ lf_file' = FileOf(<<>>)
    /\ lf_requests' = <<>>
    /\ lf_pc' = "fetching"
    /\ UNCHANGED <<lf_total, lf_last_modified>>
    /\ UNCHANGED <<chanVars, xlVars, epgVars, pureVars, heapVars, moreVars>>

\* lines 173-207: one pass of the while loop: a range request and its answer
Listing_fetch_request ==
    LET resp == ListingAnswer(lf_server, lf_byte_start, lf_byte_stop)
        nxt == next_range(lf_byte_start, lf_byte_stop, lf_range_size, resp.total)
    IN  /\ lf_pc = "fetching"
        /\ lf_requests' = Append(lf_requests,
               [byte_start |-> lf_byte_start, byte_stop |-> lf_byte_stop,
                status |-> resp.status])
        /\ lf_last_modified' =
               IF lf_server.last_modified # None
               THEN parse_http_date(lf_server.last_modified)
               ELSE lf_last_modified
        /\ IF resp.status = 416
           THEN \* raise HTTPException
                /\ lf_pc' = "failed"
                /\ UNCHANGED <<lf_file, lf_byte_start, lf_byte_stop, lf_total>>
           ELSE /\ lf_file' = FileAppend(lf_file, resp.body)
                /\ IF resp.status = 206
                   THEN /\ lf_total' = resp.total
                        /\ lf_byte_start' = nxt.byte_start
                        /\ lf_byte_stop' = nxt.byte_stop
                        /\ lf_pc' = IF nxt.brk THEN "done" ELSE "fetching"
                   ELSE /\ lf_pc' = "done"
                        /\ UNCHANGED <<lf_byte_start, lf_byte_stop, lf_total>>
        /\ UNCHANGED <<lf_server, lf_range_size, lf_file0, lf_nfetch>>
        /\ UNCHANGED <<chanVars, xlVars, epgVars, pureVars, heapVars, moreVars>>

\* session.get or resp.read raises (connection lost, timeout): the exception
\* leaves fetch(); the with block closes the file as it is
Listing_fetch_raise ==
    /\ lf_pc = "fetching"
    /\ lf_pc' = "failed"
    /\ UNCHANGED <<lf_server, lf_range_size, lf_byte_start, lf_byte_stop, lf_total,
                   lf_last_modified, lf_file, lf_file0, lf_requests, lf_nfetch>>
    /\ UNCHANGED <<chanVars, xlVars, epgVars, pureVars, heapVars, moreVars>>

LfNext == Listing_fetch_begin \/ Listing_fetch_request \/ Listing_fetch_raise

ListingInit ==
    /\ HeapParked
    /\ MoreParked
    /\ EpgParked
    /\ LfInitWith("idle")
    /\ XlParked
    /\ ChanParked
    /\ PureParked

SpecListing == ListingInit /\ [][LfNext]_vars

-----------------------------------------------------------------------------
(* Inputs: the payloads the factories are given *)

\* all functions from a subset of keys to Vals
PartialFns(keys) == UNION {[s -> Vals] : s \in SUBSET keys}

\* a service summary payload of /as/services
SummaryPayloads == PartialFns({"sid", "c", "t", "sf"})

\* a payload of /as/services/details/<sid>
DetailPayloads == {[details |-> d] : d \in PartialFns({"upgradeMessage"})}

\* <channel id=..><display-name>..</display-name><icon src=../></channel>
XmlChans ==
    [id : Vals, display_name : Vals \cup {None}, icon : {None, Str(1)}]

ChanInputs ==
    {Channel_new}
    \cup {channel_from_skyq_service(p) : p \in SummaryPayloads}
    \cup {load_skyq_detail_data(channel_from_skyq_service(p), d) :
              p \in {q \in SummaryPayloads : DOMAIN q = {"sid", "t"}},
              d \in DetailPayloads}
    \cup {channel_from_xmltv_list(x) : x \in XmlChans}

-----------------------------------------------------------------------------
(* SpecChan: the pure Channel functions *)

ChanInit ==
    /\ HeapParked
    /\ MoreParked
    /\ EpgParked
    /\ PureParked
    /\ XlParked
    /\ LfParked
    /\ chan_a \in ChanInputs
    /\ chan_b \in ChanInputs
    /\ merged_ab = Channel_new
    /\ merged_ba = Channel_new
    /\ chan_pc = "init"

DoMerge ==
    /\ chan_pc = "init"
    /\ merged_ab' = merge_channels(chan_a, chan_b)
    /\ merged_ba' = merge_channels(chan_b, chan_a)
    /\ chan_pc' = "merged"
    /\ UNCHANGED <<chan_a, chan_b>>
    /\ UNCHANGED <<xlVars, lfVars, epgVars, pureVars, heapVars, moreVars>>

ChanNext == DoMerge

SpecChan == ChanInit /\ [][ChanNext]_vars

-----------------------------------------------------------------------------
(* SpecCompare: == and hash() of records *)

\* blank, summary and XMLTV records
CompareInputs ==
    {Channel_new}
    \cup {channel_from_skyq_service(p) : p \in PartialFns({"t", "sf"})}
    \cup {channel_from_xmltv_list(x) : x \in XmlChans}

CompareInit ==
    /\ HeapParked
    /\ MoreParked
    /\ EpgParked
    /\ XlParked
    /\ LfParked
    /\ PureParked
    /\ chan_a \in CompareInputs
    /\ chan_b \in CompareInputs
    /\ merged_ab = Channel_new
    /\ merged_ba = Channel_new
    /\ chan_pc = "init"

\* a == b, b == a, a == 'a string'; hash() of a, of b, of a after
\* load_skyq_detail_data, of their merges, of a blank record and of a record
\* with a's attributes and no source
DoCompare ==
    /\ chan_pc = "init"
    /\ eq_out' = [ab |-> Channel_eq(chan_a, chan_b),
                  ba |-> Channel_eq(chan_b, chan_a),
                  a_str |-> Channel_eq(chan_a, Str(1))]
    /\ \E d \in DetailPayloads :
           LET a_detail == load_skyq_detail_data(chan_a, d)
               recs == [a |-> chan_a,
                        b |-> chan_b,
                        a_detail |-> a_detail,
                        ab |-> merge_channels(chan_a, chan_b),
                        ba |-> merge_channels(chan_b, chan_a),
                        a_detail_b |-> merge_channels(a_detail, chan_b),
                        b_a_detail |-> merge_channels(chan_b, a_detail),
                        blank |-> Channel_new,
                        a_no_source |-> [chan_dict |-> chan_a.chan_dict,
                                         sources |-> no_source]]
           IN  hash_out' = [n \in DOMAIN recs |-> Channel_hash(recs[n])]
    /\ chan_pc' = "compared"
    /\ UNCHANGED <<chan_a, chan_b, merged_ab, merged_ba>>
    /\ UNCHANGED <<chan_c, merged_ab_c, merged_a_bc, json_doc, json_out>>
    /\ UNCHANGED <<xlVars, lfVars, epgVars, heapVars, moreVars>>

CompareNext == DoCompare

SpecCompare == CompareInit /\ [][CompareNext]_vars

-----------------------------------------------------------------------------
(* SpecChan3: merge_channels folded over three records *)

\* the records of a three-way fold: a blank record, summary records, records
\* with detail data only, XMLTV records
Chan3Inputs ==
    {Channel_new}
    \cup {channel_from_skyq_service(p) : p \in PartialFns({"sid", "t"})}
    \cup {load_skyq_detail_data(Channel_new, d) : d \in DetailPayloads}
    \cup {channel_from_xmltv_list(x) : x \in {y \in XmlChans : y.icon = None}}

Chan3Init ==
    /\ HeapParked
    /\ MoreParked
    /\ EpgParked
    /\ XlParked
    /\ LfParked
    /\ chan_a \in Chan3Inputs
    /\ chan_b \in Chan3Inputs
    /\ chan_c \in Chan3Inputs
    /\ merged_ab = Channel_new
    /\ merged_ba = Channel_new
    /\ merged_ab_c = Channel_new
    /\ merged_a_bc = Channel_new
    /\ json_doc = <<>>
    /\ json_out = [raised |-> "", chan |-> Channel_new]
    /\ eq_out = [ab |-> FALSE, ba |-> FALSE, a_str |-> FALSE]
    /\ hash_out = <<>>
    /\ chan_pc = "init"

DoMerge3 ==
    /\ chan_pc = "init"
    /\ merged_ab_c' = merge_channels(merge_channels(chan_a, chan_b), chan_c)
    /\ merged_a_bc' = merge_channels(chan_a, merge_channels(chan_b, chan_c))
    /\ chan_pc' = "merged3"
    /\ UNCHANGED <<chan_a, chan_b, chan_c, merged_ab, merged_ba, json_doc, json_out,
                   eq_out, hash_out>>
    /\ UNCHANGED <<xlVars, lfVars, epgVars, heapVars, moreVars>>

Chan3Next == DoMerge3

SpecChan3 == Chan3Init /\ [][Chan3Next]_vars

-----------------------------------------------------------------------------
(* channel.py, utils.py: Channel.as_json and channel_from_json *)

\* JSON values: null, a string (by the code of its text), a number, true or
\* false, an object (a function from member names to JSON values)
JNull == [js |-> "null", v |-> 0]
JStr(n) == [js |-> "string", v |-> n]
JNum(n) == [js |-> "number", v |-> n]
JBool(n) == [js |-> "bool", v |-> n]
JObj(f) == [js |-> "object", v |-> f]

\* the texts '__channel__' and 'blah'
TypeTag == Str(0 - 1)
OtherTag == Str(0 - 2)

\* yarl: URL.human_repr() is the text of the URL, URL(text) the URL of a
\* text; URL(x) raises TypeError when x is not a string
human_repr(url) == Str(url.v)
URL(text) == Url(text.v)

\* json.dumps of an attribute value; a URL goes through
\* _ChannelJSONEncoder.default (lines 31-32)
json_dumps_value(x) ==
    CASE x.ty = "none" -> JNull
      [] x.ty = "str"  -> JStr(x.v)
      [] x.ty = "int"  -> JNum(x.v)
      [] x.ty = "bool" -> JBool(x.v)
      [] x.ty = "url"  -> JStr(human_repr(x).v)

\* json.loads of a value that is not an object
json_loads_value(j) ==
    CASE j.js = "null"   -> None
      [] j.js = "string" -> Str(j.v)
      [] j.js = "number" -> PyInt(j.v)
      [] j.js = "bool"   -> PyBool(j.v)

\* lines 22-30 and Channel.as_json: the document of a record
as_json(chan) ==
    [k \in {"__type__", "attributes", "sources"} |->
        CASE k = "__type__"   -> JStr(TypeTag.v)
          [] k = "attributes" -> JObj([a \in DOMAIN chan.chan_dict |->
                                          json_dumps_value(chan.chan_dict[a])])
          [] k = "sources"    -> JNum(chan.sources)]

\* utils.py lines 56-60: err is the TypeError of URL(x)
skyq_json_decoder_hook(obj) ==
    IF "xmltv_icon_url" \in DOMAIN obj
    THEN IF obj["xmltv_icon_url"].ty = "str"
         THEN [err |-> FALSE,
               obj |-> [obj EXCEPT !["xmltv_icon_url"] = URL(obj["xmltv_icon_url"])]]
         ELSE [err |-> TRUE, obj |-> obj]
    ELSE [err |-> FALSE, obj |-> obj]

\* json.loads(json_, object_hook=skyq_json_decoder_hook): the hook is given
\* each object of the document, the inner ones first
json_loads(json_) ==
    LET inner(o) == skyq_json_decoder_hook([a \in DOMAIN o |-> json_loads_value(o[a])])
        objs == {k \in DOMAIN json_ : json_[k].js = "object"}
        top == [k \in DOMAIN json_ |->
                   IF k \in objs THEN PyDict(inner(json_[k].v).obj)
                   ELSE json_loads_value(json_[k])]
    IN  IF \E k \in objs : inner(json_[k].v).err
        THEN [err |-> TRUE, obj |-> top]
        ELSE skyq_json_decoder_hook(top)

\* channel.py lines 259-275
channel_from_json(json_) ==
    LET loaded == json_loads(json_)
        data == loaded.obj
    IN  IF loaded.err
        THEN [raised |-> "TypeError", chan |-> Channel_new]
        ELSE IF ~("__type__" \in DOMAIN data /\ data["__type__"] = TypeTag)
        THEN [raised |-> "ValueError", chan |-> Channel_new]
        ELSE IF ~({"attributes", "sources"} \subseteq DOMAIN data)
        THEN [raised |-> "KeyError", chan |-> Channel_new]
        ELSE [raised |-> "",
              chan |-> [chan_dict |-> data["attributes"].v,
                        sources   |-> data["sources"].v]]

\* payload values of each JSON type, and a URL
JsonVals == {Str(1), PyInt(1), PyBool(1), UrlJoin(Str(1))}

JsonPayloads == UNION {[keys -> JsonVals] : keys \in SUBSET {"t", "sf"}}

\* the records that are serialised: built by the factories, by
\* load_skyq_detail_data and by merge_channels
JsonInputs ==
    LET skyq == {channel_from_skyq_service(p) : p \in JsonPayloads}
        xmltv == {channel_from_xmltv_list(x) : x \in XmlChans}
    IN  {Channel_new} \cup skyq \cup xmltv
        \cup {load_skyq_detail_data(q, d) : q \in skyq, d \in DetailPayloads}
        \cup {merge_channels(q, x) : q \in skyq, x \in xmltv}

\* documents handed to channel_from_json: the document of a record, with
\* the type tag as it is, removed or replaced, and with or without a
\* further top-level member
JsonDocs ==
    LET Without(f, k) == [x \in (DOMAIN f) \ {k} |-> f[x]]
        With(f, k, v) == [x \in (DOMAIN f) \cup {k} |-> IF x = k THEN v ELSE f[x]]
        base == {as_json(chan) : chan \in {Channel_new} \cup
                     {channel_from_xmltv_list(x) : x \in XmlChans}}
        tagged == UNION {{b, Without(b, "__type__"),
                          With(b, "__type__", JStr(OtherTag.v)),
                          With(b, "__type__", JNum(1)),
                          Without(b, "attributes")} : b \in base}
    IN  {<<>>} \cup tagged
        \cup {With(t, "xmltv_icon_url", v) :
                 t \in tagged, v \in {JStr(UrlJoin(Str(1)).v), JNum(1)}}

JsonInit ==
    /\ HeapParked
    /\ MoreParked
    /\ EpgParked
    /\ XlParked
    /\ LfParked
    /\ chan_a \in JsonInputs
    /\ chan_b = Channel_new
    /\ chan_c = Channel_new
    /\ merged_ab = Channel_new
    /\ merged_ba = Channel_new
    /\ merged_ab_c = Channel_new
    /\ merged_a_bc = Channel_new
    /\ json_doc = <<>>
    /\ json_out = [raised |-> "", chan |-> Channel_new]
    /\ eq_out = [ab |-> FALSE, ba |-> FALSE, a_str |-> FALSE]
    /\ hash_out = <<>>
    /\ chan_pc = "init"

\* channel_from_json(chan.as_json())
DoRoundTrip ==
    /\ chan_pc = "init"
    /\ json_doc' = as_json(chan_a)
    /\ json_out' = channel_from_json(as_json(chan_a))
    /\ chan_pc' = "roundtrip"
    /\ UNCHANGED <<chan_a, chan_b, chan_c, merged_ab, merged_ba, merged_ab_c,
                   merged_a_bc, eq_out, hash_out>>
    /\ UNCHANGED <<xlVars, lfVars, epgVars, heapVars, moreVars>>

\* channel_from_json of a document from elsewhere
DoParse ==
    /\ chan_pc = "init"
    /\ \E doc \in JsonDocs :
           /\ json_doc' = doc
           /\ json_out' = channel_from_json(doc)
    /\ chan_pc' = "parsed"
    /\ UNCHANGED <<chan_a, chan_b, chan_c, merged_ab, merged_ba, merged_ab_c,
                   merged_a_bc, eq_out, hash_out>>
    /\ UNCHANGED <<xlVars, lfVars, epgVars, heapVars, moreVars>>

JsonNext == DoRoundTrip \/ DoParse

SpecJson == JsonInit /\ [][JsonNext]_vars

-----------------------------------------------------------------------------
(* SpecHeap: Channel objects by reference.  A Channel is an object holding
   a reference to its _chan_dict and its _sources; two objects that hold
   the same reference share one dict, and a write through either is seen
   through both. *)

\* how many Channel objects are alive at once
MaxObjects == 4

\* the heap as one value
Heap == [objs |-> heap_objs, dicts |-> heap_dicts]

\* the record an object stands for: its dict and its sources
HeapValue(H, id) ==
    [chan_dict |-> H.dicts[H.objs[id].chan_dict],
     sources   |-> H.objs[id].sources]

\* the reference given to a newly created dict
NewRef(dicts) ==
    CHOOSE r \in 1..(Cardinality(DOMAIN dicts) + 1) :
        /\ r \notin DOMAIN dicts
        /\ \A q \in 1..(r - 1) : q \in DOMAIN dicts

\* a dict that no object refers to any more is freed
Collect(H) ==
    LET live == {H.objs[id].chan_dict : id \in DOMAIN H.objs}
    IN  [objs |-> H.objs, dicts |-> [r \in live |-> H.dicts[r]]]

\* Channel.__new__ on the heap: a new object with a new blank dict
Heap_Channel_new(H) ==
    LET id == Len(H.objs) + 1
        r  == NewRef(H.dicts)
    IN  [heap |-> [objs  |-> Append(H.objs, [chan_dict |-> r,
                                              sources   |-> Channel_new.sources]),
                   dicts |-> (r :> Channel_new.chan_dict) @@ H.dicts],
         id   |-> id]

\* newchannel._chan_dict = self._chan_dict, without the copy
copy_by_reference(dicts, ref) == [dicts |-> dicts, ref |-> ref]

\* copy.deepcopy(self._chan_dict): a new dict with the same items (the
\* values are strings, integers and URLs, which are immutable)
deepcopy(dicts, ref) ==
    LET r == NewRef(dicts)
    IN  [dicts |-> (r :> dicts[ref]) @@ dicts, ref |-> r]

\* the three loaders share their shape: a new object, a copy of self's dict
\* bound to it, the writes of the loader applied to the dict now bound to
\* the new object, and the sources of self or-ed with the loader's flag.
\* written(d) is the dict after the loader's update / item assignments.
HeapLoad(H, self, written, flag) ==
    LET n     == Heap_Channel_new(H)
        c     == deepcopy(n.heap.dicts, n.heap.objs[self].chan_dict)
        dicts == [c.dicts EXCEPT ![c.ref] = written]
        objs  == [n.heap.objs EXCEPT
                    ![n.id] = [chan_dict |-> c.ref,
                               sources   |-> SourcesOr(H.objs[self].sources, flag)]]
    IN  [heap |-> Collect([objs |-> objs, dicts |-> dicts]), id |-> n.id]

Heap_load_skyq_summary_data(H, self, chan_dict) ==
    HeapLoad(H, self,
             load_skyq_summary_data(HeapValue(H, self), chan_dict).chan_dict,
             skyq_service_summary)

Heap_load_skyq_detail_data(H, self, detail_dict) ==
    HeapLoad(H, self,
             load_skyq_detail_data(HeapValue(H, self), detail_dict).chan_dict,
             skyq_service_detail)

Heap_load_xmltv_data(H, self, xml_chan) ==
    HeapLoad(H, self,
             load_xmltv_data(HeapValue(H, self), xml_chan).chan_dict,
             xml_tv)

\* merge_channels: a new object; {**a, **b} is a new dict, and the fix-ups
\* are item assignments on that dict
Heap_merge_channels(H, a, b) ==
    LET n     == Heap_Channel_new(H)
        r     == NewRef(n.heap.dicts)
        m     == merge_channels(HeapValue(H, a), HeapValue(H, b))
        dicts == (r :> m.chan_dict) @@ n.heap.dicts
        objs  == [n.heap.objs EXCEPT
                    ![n.id] = [chan_dict |-> r, sources |-> m.sources]]
    IN  [heap |-> Collect([objs |-> objs, dicts |-> dicts]), id |-> n.id]

\* payloads of the loaders
HeapSummaryPayloads == {[sid |-> Str(1), t |-> Str(1)], [c |-> Str(1)]}
HeapDetailPayloads == {[details |-> [upgradeMessage |-> Str(1)]]}
HeapXmlChans ==
    {[id |-> Str(1), display_name |-> Str(1), icon |-> Str(1)],
     [id |-> Str(2), display_name |-> None, icon |-> None]}

\* one Channel.__new__(Channel), as the factories begin
HeapInit ==
    /\ MoreParked
    /\ EpgParked
    /\ XlParked
    /\ LfParked
    /\ ChanParked
    /\ PureParked
    /\ LET n == Heap_Channel_new([objs |-> <<>>, dicts |-> <<>>])
       IN  /\ heap_objs = n.heap.objs
           /\ heap_dicts = n.heap.dicts
           /\ heap_op = [name |-> "Channel.__new__", self |-> 0, other |-> 0,
                         result |-> n.id]

HeapDone(name, self, other, out) ==
    /\ heap_objs' = out.heap.objs
    /\ heap_dicts' = out.heap.dicts
    /\ heap_op' = [name |-> name, self |-> self, other |-> other,
                   result |-> out.id]
    /\ UNCHANGED <<chanVars, xlVars, lfVars, epgVars, pureVars, moreVars>>

HeapLoadSummary ==
    /\ Len(heap_objs) < MaxObjects
    /\ \E self \in DOMAIN heap_objs, p \in HeapSummaryPayloads :
           HeapDone("load_skyq_summary_data", self, 0,
                    Heap_load_skyq_summary_data(Heap, self, p))

HeapLoadDetail ==
    /\ Len(heap_objs) < MaxObjects
    /\ \E self \in DOMAIN heap_objs, d \in HeapDetailPayloads :
           HeapDone("load_skyq_detail_data", self, 0,
                    Heap_load_skyq_detail_data(Heap, self, d))

HeapLoadXmltv ==
    /\ Len(heap_objs) < MaxObjects
    /\ \E self \in DOMAIN heap_objs, x \in HeapXmlChans :
           HeapDone("load_xmltv_data", self, 0,
                    Heap_load_xmltv_data(Heap, self, x))

HeapMerge ==
    /\ Len(heap_objs) < MaxObjects
    /\ \E a \in DOMAIN heap_objs, b \in DOMAIN heap_objs :
           HeapDone("merge_channels", a, b, Heap_merge_channels(Heap, a, b))

HeapNext == HeapLoadSummary \/ HeapLoadDetail \/ HeapLoadXmltv \/ HeapMerge

SpecHeap == HeapInit /\ [][HeapNext]_vars

-----------------------------------------------------------------------------
(* epg.py: the EPG catalog *)

\* str(x): a string is itself, None is the text 'None' (Str(0)), the
\* integer n is its decimal text Str(n)
str(x) ==
    CASE x.ty = "str"  -> x
      [] x.ty = "none" -> Str(0)
      [] OTHER         -> Str(x.v)

\* a service of the /as/services answer: the box gives each its sid and title
EpgServices == {p \in SummaryPayloads : DOMAIN p = {"sid", "t"}}

\* the 'services' list of one answer
RECURSIVE SeqsUpTo(_, _)
SeqsUpTo(S, n) ==
    IF n = 0 THEN {<<>>}
    ELSE SeqsUpTo(S, n - 1)
         \cup {Append(q, x) : q \in {r \in SeqsUpTo(S, n - 1) : Len(r) = n - 1},
                              x \in S}

ServiceLists == SeqsUpTo(EpgServices, MaxChannels) \ {<<>>}

\* the <channel> elements of a listing file: display names in either case
EpgXmlChans ==
    [id : Vals, display_name : {None} \cup Vals \cup {Upper(v) : v \in Vals},
     icon : {None}]

\* an XMLTVListing handed to apply_XMLTVListing: its two flags and the
\* <channel> elements of its file
Listings ==
    {[downloaded |-> f[1], downloading |-> f[2], channels |-> xs] :
        f \in {<<TRUE, FALSE>>, <<FALSE, FALSE>>, <<TRUE, TRUE>>},
        xs \in SeqsUpTo(EpgXmlChans, 1)}

\* list.remove of the element at position i
RemoveAt(list, i) == SubSeq(list, 1, i - 1) \o SubSeq(list, i + 1, Len(list))

\* the first position of the catalog whose record has chan.sid == sid, or 0
IndexOfSid(channels, sid) ==
    LET hits == {i \in 1..Len(channels) :
                    Channel_getattr(channels[i], "sid") = sid}
    IN  IF hits = {} THEN 0 ELSE CHOOSE i \in hits : \A j \in hits : i <= j

\* get_channel_by_sid giving a blank record instead of raising
get_channel_by_sid_default(channels, sid) ==
    LET i == IndexOfSid(channels, str(sid))
    IN  IF channels = <<>> \/ i = 0
        THEN [raised |-> FALSE, idx |-> 0, chan |-> Channel_new]
        ELSE [raised |-> FALSE, idx |-> i, chan |-> channels[i]]

\* lines 162-186, run without interruption: raised is ValueError
get_channel_by_sid(channels, sid) ==
    LET i == IndexOfSid(channels, str(sid))
    IN  IF channels = <<>> \/ i = 0
        THEN [raised |-> TRUE, idx |-> 0, chan |-> Channel_new]
        ELSE [raised |-> FALSE, idx |-> i, chan |-> channels[i]]

\* lines 73-92: one record is appended for each service of the answer
load_channel_list ==
    /\ ld_pc \in {"idle", "failed"}
    /\ epg_nloads < MaxLoads
    /\ epg_nloads' = epg_nloads + 1
    /\ \E services \in ServiceLists :
           epg_channels' = epg_channels \o
               [i \in 1..Len(services) |-> channel_from_skyq_service(services[i])]
    /\ ld_pc' = "listed"
    /\ UNCHANGED <<ld_sid_list, ld_i, ld_new_chan, rd_pc, rd_sid, rd_arg, rd_idx,
                   rd_result, rd_present0, ap_pc>>
    /\ UNCHANGED <<chanVars, xlVars, lfVars, pureVars, heapVars, moreVars>>

\* lines 131-135: _load_channel_details takes its snapshot of the sids and
\* fetches the details
load_channel_details_begin ==
    /\ ld_pc = "listed"
    /\ ld_sid_list' = [i \in 1..Len(epg_channels) |->
                          Channel_getattr(epg_channels[i], "sid")]
    /\ ld_i' = 1
    /\ ld_pc' = IF epg_channels = <<>> THEN "idle" ELSE "remove"
    /\ UNCHANGED <<epg_channels, epg_nloads, ld_new_chan, rd_pc, rd_sid, rd_arg, rd_idx,
                   rd_result, rd_present0, ap_pc>>
    /\ UNCHANGED <<chanVars, xlVars, lfVars, pureVars, heapVars, moreVars>>

\* lines 136-139: new_chan is built from the record of the sid and the old
\* record is removed from the list
load_channel_details_remove ==
    LET r == get_channel_by_sid(epg_channels, ld_sid_list[ld_i])
    IN  /\ ld_pc = "remove"
        /\ IF r.raised
           THEN /\ ld_pc' = "failed"
                /\ UNCHANGED <<epg_channels, ld_new_chan>>
           ELSE /\ \E json_dict \in DetailPayloads :
                       ld_new_chan' = load_skyq_detail_data(r.chan, json_dict)
                /\ epg_channels' = RemoveAt(epg_channels, r.idx)
                /\ ld_pc' = "append"
        /\ UNCHANGED <<epg_nloads, ld_sid_list, ld_i, rd_pc, rd_sid, rd_arg, rd_idx,
                       rd_result, rd_present0, ap_pc>>
        /\ UNCHANGED <<chanVars, xlVars, lfVars, pureVars, heapVars, moreVars>>

\* line 140: new_chan is appended; the loop goes to the next sid or ends
load_channel_details_append ==
    /\ ld_pc = "append"
    /\ epg_channels' = Append(epg_channels, ld_new_chan)
    /\ ld_new_chan' = Channel_new
    /\ IF ld_i < Len(ld_sid_list)
       THEN /\ ld_i' = ld_i + 1
            /\ ld_pc' = "remove"
            /\ UNCHANGED ld_sid_list
       ELSE /\ ld_i' = 0
            /\ ld_sid_list' = <<>>
            /\ ld_pc' = "idle"
    /\ UNCHANGED <<epg_nloads, rd_pc, rd_sid, rd_arg, rd_idx, rd_result, rd_present0,
                   ap_pc>>
    /\ UNCHANGED <<chanVars, xlVars, lfVars, pureVars, heapVars, moreVars>>

\* lines 178-180, in another thread: get_channel_by_sid(sid) is entered
get_channel_by_sid_begin ==
    /\ rd_pc \in {"idle", "found", "notfound"}
    /\ \E sid \in Vals \cup {PyInt(n) : n \in 1..NumVals} :
           /\ rd_arg' = sid
           /\ rd_sid' = str(sid)
           /\ rd_present0' = (IndexOfSid(epg_channels, str(sid)) # 0)
    /\ rd_pc' = IF epg_channels = <<>> THEN "notfound" ELSE "iter"
    /\ rd_idx' = 0
    /\ rd_result' = Channel_new
    /\ UNCHANGED <<epg_channels, epg_nloads, ld_pc, ld_sid_list, ld_i,
                   ld_new_chan, ap_pc>>
    /\ UNCHANGED <<chanVars, xlVars, lfVars, pureVars, heapVars, moreVars>>

\* lines 182-185: one turn of its for loop; the list iterator reads the
\* element at its index, or ends when the index is past the list's end
get_channel_by_sid_next ==
    /\ rd_pc = "iter"
    /\ IF rd_idx >= Len(epg_channels)
       THEN /\ rd_pc' = "notfound"
            /\ rd_idx' = 0
            /\ UNCHANGED rd_result
       ELSE IF Channel_getattr(epg_channels[rd_idx + 1], "sid") = rd_sid
            THEN /\ rd_pc' = "found"
                 /\ rd_result' = epg_channels[rd_idx + 1]
                 /\ rd_idx' = 0
            ELSE /\ rd_idx' = rd_idx + 1
                 /\ UNCHANGED <<rd_pc, rd_result>>
    /\ UNCHANGED <<epg_channels, epg_nloads, ld_pc, ld_sid_list, ld_i,
                   ld_new_chan, rd_sid, rd_arg, rd_present0, ap_pc>>
    /\ UNCHANGED <<chanVars, xlVars, lfVars, pureVars, heapVars, moreVars>>

\* lines 348-351, the inner loop for one skyq_channel: the local name is
\* rebound to the merge on each match; err is AttributeError (None.lower())
RECURSIVE apply_inner_loop(_, _, _)
apply_inner_loop(skyq_channel, xmltv_channels, j) ==
    IF j > Len(xmltv_channels)
    THEN [err |-> FALSE, skyq_channel |-> skyq_channel]
    ELSE LET xmltv_channel == channel_from_xmltv_list(xmltv_channels[j])
             name == Channel_getattr(skyq_channel, "name")
             display == Channel_getattr(xmltv_channel, "xmltv_display_name")
         IN  IF name = None \/ display = None
             THEN [err |-> TRUE, skyq_channel |-> skyq_channel]
             ELSE apply_inner_loop(
                      IF Lower(name) = Lower(display)
                      THEN merge_channels(skyq_channel, xmltv_channel)
                      ELSE skyq_channel,
                      xmltv_channels, j + 1)

\* lines 330-351: raised is ValueError (no channels), OSError (parse_channels
\* on a listing neither downloaded nor downloading) or AttributeError;
\* merged holds the value each skyq_channel local ends with
apply_loops(channels, listing) ==
    LET merged == [i \in 1..Len(channels) |->
                      apply_inner_loop(channels[i], listing.channels, 1)]
    IN  [raised |-> \/ channels = <<>>
                    \/ (~listing.downloaded /\ ~listing.downloading)
                    \/ \E i \in 1..Len(channels) : merged[i].err,
         merged |-> merged]

\* lines 330-351: nothing is assigned to self._channels
apply_XMLTVListing(listing) ==
    /\ ap_pc' = IF apply_loops(epg_channels, listing).raised
                THEN "raised" ELSE "done"
    /\ UNCHANGED <<epg_channels, epg_nloads, ld_pc, ld_sid_list, ld_i,
                   ld_new_chan, rd_pc, rd_sid, rd_arg, rd_idx, rd_result, rd_present0>>
    /\ UNCHANGED <<chanVars, xlVars, lfVars, pureVars, heapVars, moreVars>>

ApplyListing == \E listing \in Listings : apply_XMLTVListing(listing)

EpgNext ==
    \/ load_channel_list
    \/ load_channel_details_begin
    \/ load_channel_details_remove
    \/ load_channel_details_append
    \/ get_channel_by_sid_begin
    \/ get_channel_by_sid_next
    \/ ApplyListing

EpgInit ==
    /\ HeapParked
    /\ MoreParked
    /\ EpgInitWith("idle")
    /\ XlParked
    /\ LfParked
    /\ ChanParked
    /\ PureParked

SpecEPG == EpgInit /\ [][EpgNext]_vars

-----------------------------------------------------------------------------
(* SpecCatalog: the EPG catalog used from one thread, each call run to its
   end before the next begins *)

\* how many loads are made on one EPG object
MaxSeqLoads == 2

\* the 'services' list of one /as/services answer of the box: each sid at
\* most once, every service with its title
RECURSIVE ServicesOf(_)
ServicesOf(sids) ==
    IF sids = {} THEN <<>>
    ELSE LET n == CHOOSE m \in sids : \A k \in sids : m <= k
         IN  <<[sid |-> Str(n), t |-> Str(n)]>> \o ServicesOf(sids \ {n})

BoxAnswers == {ServicesOf(sids) : sids \in (SUBSET (1..NumVals)) \ {{}}}

\* lines 91-92: one record appended for each service of the answer
append_services(channels, services) ==
    channels \o
        [i \in 1..Len(services) |-> channel_from_skyq_service(services[i])]

\* list.remove(x): the first element that is == x goes (x is in the list)
list_remove(list, x) ==
    RemoveAt(list, CHOOSE i \in 1..Len(list) :
                       /\ Channel_eq(list[i], x)
                       /\ \A j \in 1..(i - 1) : ~Channel_eq(list[j], x))

\* lines 135-140: for each sid of the snapshot, the record found by
\* get_channel_by_sid is removed and its copy with the details appended;
\* a ValueError of get_channel_by_sid ends the loop
RECURSIVE load_channel_details_loop(_, _, _, _)
load_channel_details_loop(channels, sid_list, i, json_dict) ==
    IF i > Len(sid_list)
    THEN [raised |-> FALSE, channels |-> channels]
    ELSE LET found == get_channel_by_sid(channels, sid_list[i])
         IN  IF found.raised
             THEN [raised |-> TRUE, channels |-> channels]
             ELSE LET new_chan == load_skyq_detail_data(found.chan, json_dict)
                      removed  == list_remove(channels, found.chan)
                  IN  load_channel_details_loop(Append(removed, new_chan),
                                                sid_list, i + 1, json_dict)

\* lines 130-140: the snapshot of the sids, then the loop
load_channel_details(channels, json_dict) ==
    load_channel_details_loop(
        channels,
        [i \in 1..Len(channels) |-> Channel_getattr(channels[i], "sid")],
        1, json_dict)

CatalogInit ==
    /\ HeapParked
    /\ MoreParked
    /\ EpgInitWith("idle")
    /\ XlParked
    /\ LfParked
    /\ ChanParked
    /\ PureParked

\* EPG._load_channel_list, lines 73-92
Catalog_load_channel_list ==
    /\ epg_nloads < MaxSeqLoads
    /\ epg_nloads' = epg_nloads + 1
    /\ \E services \in BoxAnswers :
           epg_channels' = append_services(epg_channels, services)
    /\ ld_pc' = "listed"
    /\ UNCHANGED <<ld_sid_list, ld_i, ld_new_chan, rd_pc, rd_sid, rd_arg, rd_idx,
                   rd_result, rd_present0, ap_pc>>
    /\ UNCHANGED <<chanVars, xlVars, lfVars, pureVars, heapVars, moreVars>>

\* EPG.load_skyq_channel_data, lines 144-158: the list, then the details
Catalog_load_skyq_channel_data ==
    /\ epg_nloads < MaxSeqLoads
    /\ epg_nloads' = epg_nloads + 1
    /\ \E services \in BoxAnswers, json_dict \in HeapDetailPayloads :
           LET out == load_channel_details(
                          append_services(epg_channels, services), json_dict)
           IN  /\ epg_channels' = out.channels
               /\ ld_pc' = IF out.raised THEN "failed" ELSE "idle"
    /\ UNCHANGED <<ld_sid_list, ld_i, ld_new_chan, rd_pc, rd_sid, rd_arg, rd_idx,
                   rd_result, rd_present0, ap_pc>>
    /\ UNCHANGED <<chanVars, xlVars, lfVars, pureVars, heapVars, moreVars>>

\* EPG.get_channel_by_sid, lines 162-186
Catalog_get_channel_by_sid ==
    /\ \E sid \in Vals \cup {PyInt(n) : n \in 1..NumVals} :
           LET out == get_channel_by_sid(epg_channels, sid)
           IN  /\ rd_arg' = sid
               /\ rd_sid' = str(sid)
               /\ rd_present0' = (IndexOfSid(epg_channels, str(sid)) # 0)
               /\ rd_pc' = IF out.raised THEN "notfound" ELSE "found"
               /\ rd_result' = out.chan
    /\ rd_idx' = 0
    /\ UNCHANGED <<epg_channels, epg_nloads, ld_pc, ld_sid_list, ld_i,
                   ld_new_chan, ap_pc>>
    /\ UNCHANGED <<chanVars, xlVars, lfVars, pureVars, heapVars, moreVars>>

CatalogNext ==
    \/ Catalog_load_channel_list
    \/ Catalog_load_skyq_channel_data
    \/ Catalog_get_channel_by_sid

SpecCatalog == CatalogInit /\ [][CatalogNext]_vars

-----------------------------------------------------------------------------
(* SpecSearch: EPG.get_channel on a loaded catalog *)

\* the largest limit passed to get_channel
MaxLimit == 2

\* a member of the QUALITY enumeration (Q.HD, ...): an Enum that is not a
\* str, so that it is never == to a string
Quality(n) == [ty |-> "quality", v |-> n]

\* bool(x): None and False are false; non-empty strings, enumeration
\* members and True are true
py_truth(x) ==
    CASE x.ty = "none" -> FALSE
      [] x.ty = "bool" -> x.v = 1
      [] OTHER         -> TRUE

\* fuzzywuzzy's utils.full_process: the text in lower case
full_process(s) == Lower(s)

\* fuzzywuzzy's scorer on two processed texts: 100 for the same text, less
\* the further the texts are apart, never below 0
WRatio(q, c) ==
    IF q = c THEN 100
    ELSE LET d == IF q.v < c.v THEN c.v - q.v ELSE q.v - c.v
         IN  IF 10 * d > 90 THEN 0 ELSE 90 - 10 * d

\* process.extract(query, choices, limit=limit): the names of the limit
\* best-scoring choices, best first, the earlier of two equal scores first;
\* no score is too low to be returned
process_extract(query, choices, limit) ==
    LET score(i) == WRatio(full_process(query), full_process(choices[i]))
        rank(i) == 1 + Cardinality({j \in 1..Len(choices) :
                           \/ score(j) > score(i)
                           \/ score(j) = score(i) /\ j < i})
        n == IF limit < Len(choices) THEN limit ELSE Len(choices)
    IN  [k \in 1..n |->
            LET i == CHOOSE i \in 1..Len(choices) : rank(i) = k
            IN  <<choices[i], score(i)>>]

\* a local name that was never assigned
Unbound == [bound |-> FALSE, list |-> <<>>]
Bound(list) == [bound |-> TRUE, list |-> list]

GcRaise(err) == [raised |-> err, channels |-> <<>>]

\* lines 219-232.  empty_raises: whether process.extract raises on an empty
\* list of choices (fuzzywuzzy before 0.17 raises StopIteration inside a
\* generator, a RuntimeError since Python 3.7) or returns no match
get_channel(channels_, name, fuzzy_match, include_timeshift, quality_flag, limit, empty_raises) ==
    IF limit < 1 THEN GcRaise("ValueError")
    ELSE IF channels_ = <<>> THEN GcRaise("ValueError")
    ELSE
    LET c1 == IF ~include_timeshift
              THEN Bound(SelectSeq(channels_,
                      LAMBDA chan : ~py_truth(Channel_getattr(chan, "timeshifted"))))
              ELSE Unbound
        c2 == IF py_truth(quality_flag)
              THEN IF c1.bound
                   THEN Bound(SelectSeq(c1.list,
                           LAMBDA chan : Channel_getattr(chan, "quality") = quality_flag))
                   ELSE Unbound
              ELSE c1
    IN  IF ~c2.bound THEN GcRaise("UnboundLocalError")
        ELSE
        LET choices == [i \in 1..Len(c2.list) |-> Channel_getattr(c2.list[i], "name")]
        IN  IF choices = <<>> /\ empty_raises THEN GcRaise("RuntimeError")
            ELSE
            LET matches == process_extract(name, choices, limit)
                matched_names == {matches[k][1] : k \in 1..Len(matches)}
            IN  [raised |-> "",
                 channels |-> SelectSeq(c2.list,
                     LAMBDA chan : Channel_getattr(chan, "name") \in matched_names)]

\* the services of an /as/services answer: sid, title, quality and, for a
\* +1 channel, the timeshifted mark
SearchServices(n) ==
    {[sid |-> Str(n), t |-> t, sf |-> Str(1)] : t \in Vals}
    \cup {[sid |-> Str(n), t |-> t, sf |-> Str(1), timeshifted |-> PyBool(1)] :
             t \in Vals}

SearchAnswers ==
    {<<s>> : s \in SearchServices(1)}
    \cup {<<s1, s2>> : s1 \in SearchServices(1), s2 \in SearchServices(2)}

SearchInit ==
    /\ HeapParked
    /\ SearchParked
    /\ CronParked
    /\ ParseParked
    /\ AtParked
    /\ LateParked
    /\ EpgInitWith("idle")
    /\ XlParked
    /\ LfParked
    /\ ChanParked
    /\ PureParked

\* EPG._load_channel_list, lines 73-92
Search_load_channel_list ==
    /\ epg_nloads < MaxLoads
    /\ epg_nloads' = epg_nloads + 1
    /\ \E services \in SearchAnswers :
           epg_channels' = append_services(epg_channels, services)
    /\ ld_pc' = "listed"
    /\ UNCHANGED <<ld_sid_list, ld_i, ld_new_chan, rd_pc, rd_sid, rd_arg, rd_idx,
                   rd_result, rd_present0, ap_pc>>
    /\ UNCHANGED <<chanVars, xlVars, lfVars, pureVars, heapVars, moreVars>>

\* EPG.get_channel, lines 189-232
Search_get_channel ==
    /\ \E name \in Vals \cup {Upper(v) : v \in Vals},
          fuzzy_match \in BOOLEAN, include_timeshift \in BOOLEAN,
          quality_flag \in {None, Quality(1)}, limit \in 0..MaxLimit,
          empty_raises \in BOOLEAN :
           /\ gc_args' = [name |-> name, fuzzy_match |-> fuzzy_match,
                          include_timeshift |-> include_timeshift,
                          quality_flag |-> quality_flag, limit |-> limit]
           /\ gc_out' = get_channel(epg_channels, name, fuzzy_match,
                                    include_timeshift, quality_flag, limit,
                                    empty_raises)
    /\ UNCHANGED <<chanVars, xlVars, lfVars, epgVars, pureVars, heapVars, cronVars,
                   parseVars, atVars, lateVars>>

SearchNext == Search_load_channel_list \/ Search_get_channel

SpecSearch == SearchInit /\ [][SearchNext]_vars

-----------------------------------------------------------------------------
(* SpecCron: the XMLTV cronjobs of the EPG.  Each CronThread runs an event
   loop of its own; aiocron calls the func it was given at each tick of the
   cronspec, inside that loop, and a failure of the call never reaches the
   loop: run_forever goes on and the next tick is armed. *)

\* how many add / delete calls are made on one EPG object
MaxCronCalls == 3

\* how many ticks the cronspecs fire in all
MaxTicks == 2

\* XMLTVListing objects: 1 and 2 were made for the same URL, 3 for another
XmltvListings ==
    {[id |-> 1, url |-> Url(1)], [id |-> 2, url |-> Url(1)],
     [id |-> 3, url |-> Url(2)]}

\* 'is': the same object
XMLTVListing_is(self, other) == other.id = self.id

\* XMLTVListing.__eq__: the hashes of the two URLs are equal
XMLTVListing_eq(self, other) == py_hash(other.url) = py_hash(self.url)

\* cronspec strings: Str(1) is a valid one ("1 1 1 1 1"), Str(2) is not
CronSpecs == {Str(1), Str(2), None}
croniter_is_valid(cronspec) == cronspec = Str(1)

\* CronThread() followed by crontab(..., start=True): the loop runs, the
\* cronspec is armed in it and no cycle is in flight
CronThread_new(listing) ==
    [loop |-> "running", armed |-> TRUE, task |-> "none",
     listing |-> listing.id, ticks |-> 0, last |-> "none"]

\* CronThread.stop: the loop is told to stop and the thread joined; run()
\* then closes the loop, and a cycle that was waiting in it is never
\* resumed.  On a loop that is closed call_soon_threadsafe raises
CronThread_stop(thread) ==
    IF thread.loop = "closed"
    THEN [raised |-> "RuntimeError", thread |-> thread]
    ELSE [raised |-> "",
          thread |-> [thread EXCEPT
                        !.loop = "closed",
                        !.task = IF @ = "fetching" THEN "abandoned" ELSE @]]

\* the positions of the jobs whose listing == listing
JobsOf(jobs, listing) ==
    {i \in 1..Len(jobs) : XMLTVListing_eq(jobs[i].listing, listing)}

\* lines 279-296 with the CronThread made before the cronspec is tested
add_XMLTV_listing_cronjob_thread_first(channels_, jobs, threads, listing, cronspec) ==
    IF channels_ = <<>>
    THEN [raised |-> "ValueError", jobs |-> jobs, threads |-> threads]
    ELSE IF \A i \in 1..Len(jobs) : ~XMLTVListing_eq(jobs[i].listing, listing)
         THEN IF py_truth(cronspec) /\ croniter_is_valid(cronspec)
              THEN [raised  |-> "",
                    jobs    |-> Append(jobs, [listing |-> listing,
                                              schedule |-> cronspec,
                                              thread |-> Len(threads) + 1]),
                    threads |-> Append(threads, CronThread_new(listing))]
              ELSE [raised |-> "ValueError", jobs |-> jobs,
                    threads |-> Append(threads, CronThread_new(listing))]
         ELSE [raised |-> "ValueError", jobs |-> jobs, threads |-> threads]

\* lines 279-296 with an always-new job, whatever is scheduled already
add_XMLTV_listing_cronjob_no_check(channels_, jobs, threads, listing, cronspec) ==
    IF channels_ = <<>>
    THEN [raised |-> "ValueError", jobs |-> jobs, threads |-> threads]
    ELSE IF py_truth(cronspec) /\ croniter_is_valid(cronspec)
         THEN [raised  |-> "",
               jobs    |-> Append(jobs, [listing |-> listing,
                                         schedule |-> cronspec,
                                         thread |-> Len(threads) + 1]),
               threads |-> Append(threads, CronThread_new(listing))]
         ELSE [raised |-> "ValueError", jobs |-> jobs, threads |-> threads]

\* lines 279-296: the part of add_XMLTV_listing_cronjob before run_now
add_XMLTV_listing_cronjob(channels_, jobs, threads, listing, cronspec) ==
    IF channels_ = <<>>
    THEN [raised |-> "ValueError", jobs |-> jobs, threads |-> threads]
    ELSE IF \A i \in 1..Len(jobs) :
                ~(XMLTVListing_is(jobs[i].listing, listing)
                  \/ XMLTVListing_eq(jobs[i].listing, listing))
         THEN IF py_truth(cronspec) /\ croniter_is_valid(cronspec)
              THEN [raised  |-> "",
                    jobs    |-> Append(jobs, [listing |-> listing,
                                              schedule |-> cronspec,
                                              thread |-> Len(threads) + 1]),
                    threads |-> Append(threads, CronThread_new(listing))]
              ELSE [raised |-> "ValueError", jobs |-> jobs, threads |-> threads]
         ELSE [raised |-> "ValueError", jobs |-> jobs, threads |-> threads]

\* lines 240-250: the first job of the listing ([...][0] raises IndexError
\* on an empty list, which 'except ValueError' lets through), its thread
\* stopped, then del self._jobs[cronjob], whose index is a CronJob and not
\* an integer: TypeError, and the list keeps the job
delete_XMLTV_listing_cronjob(jobs, threads, listing) ==
    IF JobsOf(jobs, listing) = {}
    THEN [raised |-> "IndexError", jobs |-> jobs, threads |-> threads]
    ELSE LET i == CHOOSE k \in JobsOf(jobs, listing) :
                      \A m \in JobsOf(jobs, listing) : k <= m
             stopped == CronThread_stop(threads[jobs[i].thread])
             threads1 == [threads EXCEPT ![jobs[i].thread] = stopped.thread]
         IN  IF stopped.raised # ""
             THEN [raised |-> stopped.raised, jobs |-> jobs, threads |-> threads1]
             ELSE [raised |-> "TypeError", jobs |-> jobs, threads |-> threads1]

\* lines 353-372: j.cronspec is read for each job, and a CronJob has the
\* fields listing, schedule and thread
cronjobs(jobs) ==
    IF jobs = <<>>
    THEN [raised |-> "", value |-> <<>>]
    ELSE [raised |-> "AttributeError", value |-> <<>>]

\* how a download-and-apply cycle can end
CycleOutcomes == {"applied", "fetch_raised", "parse_raised", "merge_raised"}

\* the listing's flags when its fetch begins (line 181) and when the cycle
\* has ended: fetch clears downloading and sets downloaded on its last two
\* lines, which a fetch that raised never reaches
FetchBegun(flags, id) == [flags EXCEPT ![id].downloading = TRUE]
CycleEnded(flags, id, outcome) ==
    IF outcome = "fetch_raised"
    THEN [flags EXCEPT ![id].downloading = TRUE]
    ELSE [flags EXCEPT ![id] = [downloading |-> FALSE, downloaded |-> TRUE]]

\* the CronThread after a cycle of its cronjob has failed or ended: the
\* loop and the cronspec are as they were
cycle_stops_loop(thread, outcome) ==
    [thread EXCEPT !.task = "none", !.last = outcome,
                   !.loop = IF outcome = "applied" THEN @ ELSE "closed"]

cycle_done(thread, outcome) ==
    [thread EXCEPT !.task = "none", !.last = outcome]

\* the ticks fired so far in all threads
RECURSIVE TicksFired(_)
TicksFired(threads) ==
    IF threads = <<>> THEN 0
    ELSE Head(threads).ticks + TicksFired(Tail(threads))

CronInit ==
    /\ HeapParked
    /\ SearchParked
    /\ ParseParked
    /\ AtParked
    /\ LateParked
    /\ EpgInitWith("idle")
    /\ XlParked
    /\ LfParked
    /\ ChanParked
    /\ PureParked
    /\ cron_jobs = <<>>
    /\ cron_threads = <<>>
    /\ cron_flags = [id \in {l.id : l \in XmltvListings} |->
                        [downloading |-> FALSE, downloaded |-> FALSE]]
    /\ cron_out = [op |-> "init", listing |-> 0, raised |-> "", value |-> <<>>]
    /\ cron_ncalls = 0

\* EPG._load_channel_list, lines 73-92
Cron_load_channel_list ==
    /\ epg_channels = <<>>
    /\ epg_nloads' = epg_nloads + 1
    /\ epg_channels' = append_services(epg_channels, ServicesOf({1}))
    /\ ld_pc' = "listed"
    /\ UNCHANGED <<ld_sid_list, ld_i, ld_new_chan, rd_pc, rd_sid, rd_arg, rd_idx,
                   rd_result, rd_present0, ap_pc>>
    /\ UNCHANGED <<chanVars, xlVars, lfVars, pureVars, heapVars, moreVars>>

\* EPG.add_XMLTV_listing_cronjob, lines 253-301; with run_now the cycle runs
\* in the caller's thread (asyncio.run) and what it raises leaves the call
Cron_add ==
    /\ cron_ncalls < MaxCronCalls
    /\ cron_ncalls' = cron_ncalls + 1
    /\ \E listing \in XmltvListings, cronspec \in CronSpecs,
          run \in {"no"} \cup CycleOutcomes :
           LET out == add_XMLTV_listing_cronjob(epg_channels, cron_jobs,
                                                cron_threads, listing, cronspec)
               run_now == run # "no"
               outcome == run
               ran == out.raised = "" /\ run_now
           IN  /\ cron_jobs' = out.jobs
               /\ cron_threads' = out.threads
               /\ cron_flags' = IF ran
                                THEN CycleEnded(FetchBegun(cron_flags, listing.id),
                                                listing.id, outcome)
                                ELSE cron_flags
               /\ cron_out' = [op |-> "add", listing |-> listing.id,
                               raised |-> IF ran /\ outcome # "applied"
                                          THEN outcome ELSE out.raised,
                               value |-> <<>>]
    /\ UNCHANGED <<chanVars, xlVars, lfVars, epgVars, pureVars, heapVars, searchVars,
                   parseVars, atVars, lateVars>>

\* EPG.delete_XMLTV_listing_cronjob, lines 240-250
Cron_delete ==
    /\ cron_ncalls < MaxCronCalls
    /\ cron_ncalls' = cron_ncalls + 1
    /\ \E listing \in XmltvListings :
           LET out == delete_XMLTV_listing_cronjob(cron_jobs, cron_threads, listing)
           IN  /\ cron_jobs' = out.jobs
               /\ cron_threads' = out.threads
               /\ cron_out' = [op |-> "delete", listing |-> listing.id,
                               raised |-> out.raised, value |-> <<>>]
    /\ UNCHANGED cron_flags
    /\ UNCHANGED <<chanVars, xlVars, lfVars, epgVars, pureVars, heapVars, searchVars,
                   parseVars, atVars, lateVars>>

\* EPG.cronjobs, lines 353-372
Cron_cronjobs ==
    /\ LET out == cronjobs(cron_jobs)
       IN  cron_out' = [op |-> "cronjobs", listing |-> 0,
                        raised |-> out.raised, value |-> out.value]
    /\ UNCHANGED <<cron_jobs, cron_threads, cron_flags, cron_ncalls>>
    /\ UNCHANGED <<chanVars, xlVars, lfVars, epgVars, pureVars, heapVars, searchVars,
                   parseVars, atVars, lateVars>>

\* a tick of a cronspec in a running loop.  The func handed to crontab on
\* line 287 is the coroutine object made by calling
\* download_and_apply_XMLTVListing(listing): calling it raises TypeError
\* and the cycle ends there; a scheduler that awaits what it was given
\* starts the cycle, whose fetch sets the downloading flag
Cron_tick ==
    \E t \in 1..Len(cron_threads) :
        /\ cron_threads[t].loop = "running"
        /\ cron_threads[t].armed
        /\ cron_threads[t].task = "none"
        /\ TicksFired(cron_threads) < MaxTicks
        /\ \/ /\ cron_threads' = [cron_threads EXCEPT
                     ![t] = [cycle_done(@, "TypeError") EXCEPT !.ticks = @ + 1]]
              /\ UNCHANGED cron_flags
           \/ /\ cron_threads' = [cron_threads EXCEPT
                     ![t].task = "fetching", ![t].ticks = @ + 1]
              /\ cron_flags' = FetchBegun(cron_flags, cron_threads[t].listing)
        /\ UNCHANGED <<cron_jobs, cron_out, cron_ncalls>>
        /\ UNCHANGED <<chanVars, xlVars, lfVars, epgVars, pureVars, heapVars, searchVars,
                   parseVars, atVars, lateVars>>

\* the cycle in flight in a running loop ends: applied, or one of its
\* stages raised (lines 304-327; apply_XMLTVListing changes no record)
Cron_cycle_end ==
    \E t \in 1..Len(cron_threads), outcome \in CycleOutcomes :
        /\ cron_threads[t].loop = "running"
        /\ cron_threads[t].task = "fetching"
        /\ cron_threads' = [cron_threads EXCEPT ![t] = cycle_done(@, outcome)]
        /\ cron_flags' = CycleEnded(cron_flags, cron_threads[t].listing, outcome)
        /\ UNCHANGED <<cron_jobs, cron_out, cron_ncalls>>
        /\ UNCHANGED <<chanVars, xlVars, lfVars, epgVars, pureVars, heapVars, searchVars,
                   parseVars, atVars, lateVars>>

CronNext ==
    \/ Cron_load_channel_list
    \/ Cron_add
    \/ Cron_delete
    \/ Cron_cronjobs
    \/ Cron_tick
    \/ Cron_cycle_end

SpecCron == CronInit /\ [][CronNext]_vars

-----------------------------------------------------------------------------
(* SpecParse: XMLTVListing.parse_channels, called between and during the
   fetches of one listing *)

\* iterparse of the listing file: a channel for each byte of the document;
\* a file that is not XML (an error page, bytes of a gzip stream) raises
\* ParseError
NotXml(data) == \E i \in 1..Len(data) : data[i].z \/ data[i].b = 0
xml_channels(data) == [i \in 1..Len(data) |-> [xmltv_id |-> data[i].b]]

\* lines 228-240; opening a file that does not exist raises
\* FileNotFoundError, a subclass of OSError
parse_channels(downloaded, downloading, file) ==
    IF ~downloaded /\ ~downloading
    THEN [raised |-> "OSError", read |-> FALSE, channels |-> <<>>]
    ELSE IF ~file.exists
         THEN [raised |-> "FileNotFoundError", read |-> FALSE, channels |-> <<>>]
         ELSE IF NotXml(file.data)
              THEN [raised |-> "ParseError", read |-> TRUE, channels |-> <<>>]
              ELSE [raised |-> "", read |-> TRUE,
                    channels |-> xml_channels(file.data)]

ParseInit == FetchSeqInit

Xl_parse_channels ==
    /\ LET out == parse_channels(xl_downloaded, xl_downloading, fs_dest)
       IN  xp_out' = [called |-> TRUE, downloaded |-> xl_downloaded,
                      downloading |-> xl_downloading, raised |-> out.raised,
                      read |-> out.read, channels |-> out.channels]
    /\ UNCHANGED <<chanVars, xlVars, lfVars, epgVars, pureVars, heapVars,
                   searchVars, cronVars, atVars, lateVars>>

ParseNext ==
    \/ FetchBegin
    \/ FetchChunk
    \/ FetchRaise
    \/ FetchFinish
    \/ Xl_parse_channels

SpecParse == ParseInit /\ [][ParseNext]_vars

-----------------------------------------------------------------------------
(* SpecAsyncThread: the AsyncThread singleton.  The caller's thread makes
   the object, hands coroutines to run() and calls shutdown(); the tasks, the
   _cancel_all_tasks coroutine and the stop callback run in the loop's
   thread. *)

\* how many coroutines are handed to run()
MaxTasks == 2

\* how many steps of work a task does
MaxSteps == 2

\* the task of a coroutine: cleanup tells whether the coroutine awaits
\* again when CancelledError is thrown into it (a finally or except block
\* with an await); after tells whether it ran after shutdown() returned
NewTask(cleanup) ==
    [state |-> "running", steps |-> 0, cleanup |-> cleanup, after |-> FALSE]

\* lines 64-108: a new loop in a new thread, and the _loop_monitor task
AsyncThreadInit ==
    /\ HeapParked
    /\ SearchParked
    /\ CronParked
    /\ ParseParked
    /\ LateParked
    /\ EpgParked
    /\ XlParked
    /\ LfParked
    /\ ChanParked
    /\ PureParked
    /\ AtInitWith("running", <<NewTask(FALSE)>>)

AtOthersUnchanged ==
    UNCHANGED <<chanVars, xlVars, lfVars, epgVars, pureVars, heapVars,
                searchVars, cronVars, parseVars, lateVars>>

\* AsyncThread.run, lines 110-121
AT_run ==
    /\ at_pc = "idle"
    /\ Len(at_tasks) < MaxTasks + 1
    /\ \E cleanup \in BOOLEAN : at_tasks' = Append(at_tasks, NewTask(cleanup))
    /\ UNCHANGED <<at_loop, at_sentinel, at_cancel, at_pc>>
    /\ AtOthersUnchanged

\* a task of the running loop does a step of its work
AT_task_step ==
    /\ at_loop = "running"
    /\ \E i \in 1..Len(at_tasks) :
           /\ at_tasks[i].state = "running"
           /\ at_tasks[i].steps < MaxSteps
           /\ at_tasks' = [at_tasks EXCEPT ![i].steps = @ + 1,
                                           ![i].after = @ \/ at_pc = "returned"]
    /\ UNCHANGED <<at_loop, at_sentinel, at_cancel, at_pc>>
    /\ AtOthersUnchanged

\* a task returns; _loop_monitor (task 1, lines 158-162) returns only when
\* it finds the sentinel set
AT_task_done ==
    /\ at_loop = "running"
    /\ \E i \in 1..Len(at_tasks) :
           /\ at_tasks[i].state = "running"
           /\ i = 1 => at_sentinel
           /\ at_tasks' = [at_tasks EXCEPT ![i].state = "done",
                                           ![i].after = @ \/ at_pc = "returned"]
    /\ UNCHANGED <<at_loop, at_sentinel, at_cancel, at_pc>>
    /\ AtOthersUnchanged

\* AsyncThread.shutdown, lines 181-189, the whole call: the sentinel is set,
\* _cancel_all_tasks is handed to the loop with stop_callback as its done
\* callback, and the method returns
shutdown ==
    /\ at_sentinel' = TRUE
    /\ at_cancel' = "scheduled"
    /\ at_pc' = "returned"
    /\ UNCHANGED <<at_loop, at_tasks>>

AT_shutdown ==
    /\ at_pc = "idle"
    /\ shutdown
    /\ AtOthersUnchanged

\* _cancel_all_tasks, lines 165-171, run by the loop: task.cancel() for
\* every task that is not done
AT_cancel_all_tasks ==
    /\ at_loop = "running"
    /\ at_cancel = "scheduled"
    /\ at_cancel' = "done"
    /\ at_tasks' = [i \in 1..Len(at_tasks) |->
                      IF at_tasks[i].state = "running"
                      THEN [at_tasks[i] EXCEPT !.state = "cancelling"]
                      ELSE at_tasks[i]]
    /\ UNCHANGED <<at_loop, at_sentinel, at_pc>>
    /\ AtOthersUnchanged

\* the loop throws CancelledError into a task whose cancellation was
\* requested: the task ends cancelled, or its coroutine awaits in its
\* cleanup and the task goes on
AT_task_cancelled ==
    /\ at_loop = "running"
    /\ \E i \in 1..Len(at_tasks) :
           /\ at_tasks[i].state = "cancelling"
           /\ at_tasks' = [at_tasks EXCEPT
                  ![i].state = IF at_tasks[i].cleanup THEN "cleanup"
                               ELSE "cancelled",
                  ![i].after = @ \/ at_pc = "returned"]
    /\ UNCHANGED <<at_loop, at_sentinel, at_cancel, at_pc>>
    /\ AtOthersUnchanged

\* the cleanup of a cancelled coroutine ends
AT_cleanup_end ==
    /\ at_loop = "running"
    /\ \E i \in 1..Len(at_tasks) :
           /\ at_tasks[i].state = "cleanup"
           /\ at_tasks' = [at_tasks EXCEPT ![i].state = "cancelled",
                                           ![i].after = @ \/ at_pc = "returned"]
    /\ UNCHANGED <<at_loop, at_sentinel, at_cancel, at_pc>>
    /\ AtOthersUnchanged

\* stop_callback, lines 184-185, called when _cancel_all_tasks is done:
\* loop.stop(); run_forever returns and the thread ends
AT_stop_callback ==
    /\ at_loop = "running"
    /\ at_cancel = "done"
    /\ at_loop' = "stopped"
    /\ UNCHANGED <<at_sentinel, at_tasks, at_cancel, at_pc>>
    /\ AtOthersUnchanged

AsyncThreadNext ==
    \/ AT_run
    \/ AT_task_step
    \/ AT_task_done
    \/ AT_shutdown
    \/ AT_cancel_all_tasks
    \/ AT_task_cancelled
    \/ AT_cleanup_end
    \/ AT_stop_callback

SpecAsyncThread == AsyncThreadInit /\ [][AsyncThreadNext]_vars

-----------------------------------------------------------------------------
(* SpecXlInit: XMLTVListing.__init__, __hash__, __eq__ and file_path *)

\* how many XMLTVListing objects are constructed
MaxListings == 3

\* a pathlib.Path, and Path(text)
PathOf(n) == [ty |-> "path", v |-> n]
Path(text) == PathOf(text.v)

\* hashlib.sha256 of a text: the digest as an integer and as hex digits
sha256_int(text) == [ty |-> "int", v |-> 1000 + text.v]
sha256_hex(text) == [ty |-> "str", v |-> 2000 + text.v]

\* f'{hexdigest}.xml' and path.joinpath(filename)
xml_filename(hex) == [ty |-> "str", v |-> hex.v + 3000]
joinpath(path, filename) == [ty |-> "path", dir |-> path.v, name |-> filename.v]

\* what the callers pass: the URL as a string or as a yarl URL; the path as
\* a string, a Path, the default Path('.epg_data') (PathOf(0)), or an integer
XiUrls == {Str(1), Url(1), Str(2), Url(2)}
XiPaths == {Str(1), PathOf(1), Str(2), PathOf(0), PyInt(6)}

\* mutant: the digest is taken over the directory and the URL
XMLTVListing_new_hash_of_path(url, path, dirs, files) ==
    LET url_ == IF url.ty # "url" THEN URL(url) ELSE url
        path_ == IF path.ty = "str" THEN Path(path) ELSE path
        text == Str(human_repr(url_).v + 10 * path_.v)
    IN  IF path.ty \notin {"path", "str"}
        THEN [raised |-> "TypeError", dirs |-> dirs, obj |-> <<>>]
        ELSE IF path_.v \notin dirs /\ path_.v \in files
        THEN [raised |-> "FileExistsError", dirs |-> dirs, obj |-> <<>>]
        ELSE [raised |-> "",
              dirs |-> dirs \cup {path_.v},
              obj |-> [url |-> url_, path |-> path_,
                       hash |-> sha256_int(text),
                       filename |-> xml_filename(sha256_hex(text)),
                       full_path |-> joinpath(path_, xml_filename(sha256_hex(text)))]]

\* XMLTVListing.__init__, lines 47-82: mkdir raises FileExistsError when the
\* path is a plain file
XMLTVListing_new(url, path, dirs, files) ==
    LET url_ == IF url.ty # "url" THEN URL(url) ELSE url
        path_ == IF path.ty = "str" THEN Path(path) ELSE path
        text == human_repr(url_)
    IN  IF path.ty \notin {"path", "str"}
        THEN [raised |-> "TypeError", dirs |-> dirs, obj |-> <<>>]
        ELSE IF path_.v \notin dirs /\ path_.v \in files
        THEN [raised |-> "FileExistsError", dirs |-> dirs, obj |-> <<>>]
        ELSE [raised |-> "",
              dirs |-> dirs \cup {path_.v},
              obj |-> [url |-> url_, path |-> path_,
                       hash |-> sha256_int(text),
                       filename |-> xml_filename(sha256_hex(text)),
                       full_path |-> joinpath(path_, xml_filename(sha256_hex(text)))]]

\* XMLTVListing.__hash__, lines 84-86
XMLTVListing_hash(self) == self.hash

\* XMLTVListing.file_path, lines 142-150
file_path(self) == self.full_path

\* the directory 'somedir' (1) exists; the name 2 is free or a plain file
XlInitInit ==
    /\ HeapParked
    /\ SearchParked
    /\ CronParked
    /\ ParseParked
    /\ AtParked
    /\ SgParked
    /\ CtParked
    /\ StParked
    /\ EpgParked
    /\ XlParked
    /\ LfParked
    /\ ChanParked
    /\ PureParked
    /\ xi_dirs = {1}
    /\ xi_files \in {{}, {2}}
    /\ xi_objs = <<>>
    /\ xi_out = [raised |-> ""]

Xi_new ==
    /\ Len(xi_objs) < MaxListings
    /\ \E url \in XiUrls, path \in XiPaths :
           LET out == XMLTVListing_new(url, path, xi_dirs, xi_files)
           IN  /\ xi_dirs' = out.dirs
               /\ xi_objs' = IF out.raised = "" THEN Append(xi_objs, out.obj)
                             ELSE xi_objs
               /\ xi_out' = [raised |-> out.raised]
    /\ UNCHANGED xi_files
    /\ UNCHANGED <<chanVars, xlVars, lfVars, epgVars, pureVars, heapVars,
                   searchVars, cronVars, parseVars, atVars, sgVars, ctVars, stVars>>

XlInitNext ==
    \/ Xi_new

SpecXlInit == XlInitInit /\ [][XlInitNext]_vars

-----------------------------------------------------------------------------
(* SpecSingleton: constructions of AsyncThread and shutdown() calls made by
   the caller's thread, and the loop's thread stopping.  A thread started by
   the constructor runs loop.run_forever() and ends when the loop stops. *)

\* how many constructions and shutdown() calls are made
MaxSgCalls == 7

\* AsyncThread.__new__, lines 49-62: n is the id a new object would get
AsyncThread_new(instance, n) ==
    IF instance = 0
    THEN [instance |-> n, state |-> "new"]
    ELSE [instance |-> instance, state |-> "exists"]

\* a thread is started to run run_forever on the loop: on a loop that is
\* running already, run_forever raises RuntimeError and the thread ends
StartThread(threads, loop) ==
    Append(threads, IF loop = "running" THEN "failed" ELSE "alive")

IsAlive(threads, thread) == thread # 0 /\ threads[thread] = "alive"

\* mutant: a construction starts a thread whatever the state of self.thread
AsyncThread_init_always_starts(state, loop, loops, threads, thread) ==
    IF state = "new"
    THEN [loop |-> "running", loops |-> loops + 1,
          threads |-> StartThread(threads, "none"), thread |-> Len(threads) + 1]
    ELSE [loop |-> "running", loops |-> loops,
          threads |-> StartThread(threads, loop), thread |-> Len(threads) + 1]

\* AsyncThread.__init__, lines 64-108, up to the thread: a new loop and a new
\* thread for a new object; for the existing one a new thread on the same
\* loop when self.thread is None or not alive
AsyncThread_init(state, loop, loops, threads, thread) ==
    IF state = "new"
    THEN [loop |-> "running", loops |-> loops + 1,
          threads |-> StartThread(threads, "none"), thread |-> Len(threads) + 1]
    ELSE IF ~IsAlive(threads, thread)
         THEN [loop |-> "running", loops |-> loops,
               threads |-> StartThread(threads, loop), thread |-> Len(threads) + 1]
         ELSE [loop |-> loop, loops |-> loops, threads |-> threads,
               thread |-> thread]

SingletonInit ==
    /\ HeapParked
    /\ SearchParked
    /\ CronParked
    /\ ParseParked
    /\ AtParked
    /\ XiParked
    /\ CtParked
    /\ StParked
    /\ EpgParked
    /\ XlParked
    /\ LfParked
    /\ ChanParked
    /\ PureParked
    /\ SgInitWith(0)

SgOthersUnchanged ==
    UNCHANGED <<chanVars, xlVars, lfVars, epgVars, pureVars, heapVars,
                searchVars, cronVars, parseVars, atVars, xiVars, ctVars, stVars>>

\* AsyncThread(): __new__ and __init__; the sentinel is cleared on line 107
SG_construct ==
    /\ sg_ncalls < MaxSgCalls
    /\ sg_ncalls' = sg_ncalls + 1
    /\ LET obj == AsyncThread_new(sg_instance, Len(sg_refs) + 1)
           out == AsyncThread_init(obj.state, sg_loop, sg_loops, sg_threads,
                                   sg_thread)
       IN  /\ sg_instance' = obj.instance
           /\ sg_refs' = Append(sg_refs, obj.instance)
           /\ sg_loop' = out.loop
           /\ sg_loops' = out.loops
           /\ sg_threads' = out.threads
           /\ sg_thread' = out.thread
    /\ sg_sentinel' = FALSE
    /\ UNCHANGED sg_stop
    /\ SgOthersUnchanged

\* AsyncThread.shutdown, lines 181-189: the sentinel is set, and
\* _cancel_all_tasks with its stop callback is queued in the loop
SG_shutdown ==
    /\ sg_instance # 0
    /\ sg_ncalls < MaxSgCalls
    /\ sg_ncalls' = sg_ncalls + 1
    /\ sg_sentinel' = TRUE
    /\ sg_stop' = TRUE
    /\ UNCHANGED <<sg_instance, sg_loops, sg_loop, sg_threads, sg_thread, sg_refs>>
    /\ SgOthersUnchanged

\* the running loop reaches the queued _cancel_all_tasks and its stop
\* callback: loop.stop(), run_forever returns and the thread ends
SG_loop_stops ==
    /\ sg_loop = "running"
    /\ sg_stop
    /\ sg_stop' = FALSE
    /\ sg_loop' = "stopped"
    /\ sg_threads' = [sg_threads EXCEPT ![sg_thread] = "dead"]
    /\ UNCHANGED <<sg_instance, sg_loops, sg_thread, sg_sentinel, sg_refs, sg_ncalls>>
    /\ SgOthersUnchanged

SingletonNext ==
    \/ SG_construct
    \/ SG_shutdown
    \/ SG_loop_stops

SpecSingleton == SingletonInit /\ [][SingletonNext]_vars

-----------------------------------------------------------------------------
(* SpecCronThread: the constructor of CronThread, run by the caller, and
   run(), run by the new thread.  The constructor starts the thread and
   sleeps for a tenth of a second; nothing else orders the two. *)

\* how many CronThread objects are made
MaxCronThreads == 2

\* lines 18-22: self.loop = None, the thread started; the constructor is in
\* its sleep and run() has not begun.  crontab and stop tell which loop the
\* later calls worked on
CronThread_init ==
    [pc |-> "sleeping", run_pc |-> "started", loop |-> 0,
     crontab |-> "none", stop |-> "none"]

\* CronThread.crontab, lines 37-40: kwargs['loop'] = self.loop; given None,
\* aiocron takes the event loop of the calling thread
CronThread_crontab(thread) ==
    [thread EXCEPT !.crontab = IF thread.loop = 0 THEN "default" ELSE "own"]

\* CronThread.stop, lines 32-35: None has no call_soon_threadsafe; otherwise
\* the loop is stopped, run() closes it and the thread is joined
CronThread_stop_call(thread) ==
    IF thread.loop = 0
    THEN [thread EXCEPT !.stop = "AttributeError"]
    ELSE [thread EXCEPT !.stop = "own", !.run_pc = "closed"]

CronThreadInit ==
    /\ HeapParked
    /\ SearchParked
    /\ CronParked
    /\ ParseParked
    /\ AtParked
    /\ XiParked
    /\ SgParked
    /\ StParked
    /\ EpgParked
    /\ XlParked
    /\ LfParked
    /\ ChanParked
    /\ PureParked
    /\ ct_threads = <<>>

CtOthersUnchanged ==
    UNCHANGED <<chanVars, xlVars, lfVars, epgVars, pureVars, heapVars,
                searchVars, cronVars, parseVars, atVars, xiVars, sgVars, stVars>>

\* CronThread(): lines 18-22
CT_construct ==
    /\ Len(ct_threads) < MaxCronThreads
    /\ ct_threads' = Append(ct_threads, CronThread_init)
    /\ CtOthersUnchanged

\* time.sleep(.1) is over and the constructor returns, line 23
CT_sleep_ends ==
    /\ \E i \in 1..Len(ct_threads) :
           /\ ct_threads[i].pc = "sleeping"
           /\ ct_threads' = [ct_threads EXCEPT ![i].pc = "returned"]
    /\ CtOthersUnchanged

\* run(), lines 27-28: the loop is created and stored in self.loop
CT_run_new_loop ==
    /\ \E i \in 1..Len(ct_threads) :
           /\ ct_threads[i].run_pc = "started"
           /\ ct_threads' = [ct_threads EXCEPT ![i].run_pc = "loop_set",
                                               ![i].loop = i]
    /\ CtOthersUnchanged

\* run(), line 29: run_forever
CT_run_forever ==
    /\ \E i \in 1..Len(ct_threads) :
           /\ ct_threads[i].run_pc = "loop_set"
           /\ ct_threads' = [ct_threads EXCEPT ![i].run_pc = "running"]
    /\ CtOthersUnchanged

\* the caller uses the object it was given
CT_crontab ==
    /\ \E i \in 1..Len(ct_threads) :
           /\ ct_threads[i].pc = "returned"
           /\ ct_threads[i].crontab = "none"
           /\ ct_threads[i].stop = "none"
           /\ ct_threads' = [ct_threads EXCEPT ![i] = CronThread_crontab(@)]
    /\ CtOthersUnchanged

CT_stop ==
    /\ \E i \in 1..Len(ct_threads) :
           /\ ct_threads[i].pc = "returned"
           /\ ct_threads[i].stop = "none"
           /\ ct_threads' = [ct_threads EXCEPT ![i] = CronThread_stop_call(@)]
    /\ CtOthersUnchanged

CronThreadNext ==
    \/ CT_construct
    \/ CT_sleep_ends
    \/ CT_run_new_loop
    \/ CT_run_forever
    \/ CT_crontab
    \/ CT_stop

SpecCronThread == CronThreadInit /\ [][CronThreadNext]_vars

-----------------------------------------------------------------------------
(* SpecStatus: the websocket listener of Status, _ws_subscribe.  The box
   sends status messages or stays silent; the caller may ask for a
   shutdown at any moment. *)

\* how many times the listener waits for the box (connection attempts,
\* messages, timeouts)
MaxEvents == 4

\* the messages of the box, as text on the wire
StatusMessages == {"available", "unavailable"}

\* json.loads of a message: the dictionary handed to _handle
status_json_loads(payload) == [hdmi |-> [state |-> payload]]

\* line 119: asyncio.create_task(self._handle(json.loads(payload))), with the
\* local variable payload as it stands
InvokeHandler(handled, payload) == Append(handled, status_json_loads(payload))

\* Status.__init__ and create_event_listener: the sentinel is false, the
\* coroutine is at the top of its outer loop and payload is not yet bound
StatusInit ==
    /\ HeapParked
    /\ SearchParked
    /\ CronParked
    /\ ParseParked
    /\ AtParked
    /\ XiParked
    /\ SgParked
    /\ CtParked
    /\ EpgParked
    /\ XlParked
    /\ LfParked
    /\ ChanParked
    /\ PureParked
    /\ StInitWith("outer")

StOthersUnchanged ==
    UNCHANGED <<chanVars, xlVars, lfVars, epgVars, pureVars, heapVars,
                searchVars, cronVars, parseVars, atVars, xiVars, sgVars, ctVars>>

\* lines 90-94: the outer loop connects
ST_connect ==
    /\ st_pc = "outer"
    /\ ~st_sentinel
    /\ st_nevents < MaxEvents
    /\ st_pc' = "inner"
    /\ st_nevents' = st_nevents + 1
    /\ UNCHANGED <<st_payload, st_received, st_handled, st_raised, st_sentinel>>
    /\ StOthersUnchanged

\* lines 121-125: the connection is refused; sleep and try again
ST_connect_refused ==
    /\ st_pc = "outer"
    /\ ~st_sentinel
    /\ st_nevents < MaxEvents
    /\ st_nevents' = st_nevents + 1
    /\ UNCHANGED <<st_pc, st_payload, st_received, st_handled, st_raised,
                   st_sentinel>>
    /\ StOthersUnchanged

\* line 90: the outer loop ends when the sentinel is set
ST_outer_exit ==
    /\ st_pc = "outer"
    /\ st_sentinel
    /\ st_pc' = "ended"
    /\ UNCHANGED <<st_payload, st_received, st_handled, st_raised, st_sentinel,
                   st_nevents>>
    /\ StOthersUnchanged

\* line 96: the test of the inner loop; then the wait of line 101 begins
ST_inner_check ==
    /\ st_pc = "inner"
    /\ st_pc' = IF st_sentinel THEN "outer" ELSE "recv"
    /\ UNCHANGED <<st_payload, st_received, st_handled, st_raised, st_sentinel,
                   st_nevents>>
    /\ StOthersUnchanged

\* lines 101-102 and 117-119: a message arrives and is handled
ST_recv ==
    /\ st_pc = "recv"
    /\ st_nevents < MaxEvents
    /\ \E p \in StatusMessages :
           /\ st_payload' = p
           /\ st_received' = Append(st_received, p)
           /\ st_handled' = InvokeHandler(st_handled, p)
    /\ st_pc' = "inner"
    /\ st_nevents' = st_nevents + 1
    /\ UNCHANGED <<st_raised, st_sentinel>>
    /\ StOthersUnchanged

\* lines 103-108: recv timed out or the connection was closed, and the
\* sentinel is set: break
ST_timeout_shutdown ==
    /\ st_pc = "recv"
    /\ st_sentinel
    /\ st_pc' = "outer"
    /\ UNCHANGED <<st_payload, st_received, st_handled, st_raised, st_sentinel,
                   st_nevents>>
    /\ StOthersUnchanged

\* lines 103-116: recv timed out or the connection was closed, and the ping
\* fails: break, and the outer loop connects again
ST_timeout_ping_fail ==
    /\ st_pc = "recv"
    /\ ~st_sentinel
    /\ st_nevents < MaxEvents
    /\ st_pc' = "outer"
    /\ st_nevents' = st_nevents + 1
    /\ UNCHANGED <<st_payload, st_received, st_handled, st_raised, st_sentinel>>
    /\ StOthersUnchanged

\* lines 103-113 and 117-119: recv timed out or the connection was closed,
\* and the ping is answered: the except clause ends and control goes on to
\* line 119, with payload as the last message left it; when no message has
\* been received yet the name is unbound and the coroutine ends with the error
ST_timeout_ping_ok ==
    /\ st_pc = "recv"
    /\ ~st_sentinel
    /\ st_nevents < MaxEvents
    /\ IF st_payload = "unbound"
       THEN /\ st_raised' = "UnboundLocalError"
            /\ st_pc' = "ended"
            /\ UNCHANGED st_handled
       ELSE /\ st_handled' = InvokeHandler(st_handled, st_payload)
            /\ st_pc' = "inner"
            /\ UNCHANGED st_raised
    /\ st_nevents' = st_nevents + 1
    /\ UNCHANGED <<st_payload, st_received, st_sentinel>>
    /\ StOthersUnchanged

\* shudown_event_listener, lines 193-195
ST_shutdown ==
    /\ st_pc \in {"outer", "inner", "recv"}
    /\ ~st_sentinel
    /\ st_sentinel' = TRUE
    /\ UNCHANGED <<st_pc, st_payload, st_received, st_handled, st_raised,
                   st_nevents>>
    /\ StOthersUnchanged

StatusNext ==
    \/ ST_connect
    \/ ST_connect_refused
    \/ ST_outer_exit
    \/ ST_inner_check
    \/ ST_recv
    \/ ST_timeout_shutdown
    \/ ST_timeout_ping_fail
    \/ ST_timeout_ping_ok
    \/ ST_shutdown

SpecStatus == StatusInit /\ [][StatusNext]_vars

-----------------------------------------------------------------------------
(* Claims about the EPG catalog *)

\* a catalog record and a <channel> element of the listing have the same
\* name, ignoring case
NameMatches(chan, xml_chan) ==
    /\ Channel_getattr(chan, "name") # None
    /\ xml_chan.display_name # None
    /\ Lower(Channel_getattr(chan, "name")) = Lower(xml_chan.display_name)

\* C1: for every non-empty catalog and every listing, after
\* apply_XMLTVListing(listing) returns, each catalog record whose name
\* equals, ignoring case, the display name of a channel of the listing has
\* been replaced in the catalog by the merge: get_channel_by_sid on its sid
\* returns a record that carries that channel's xmltv_id and the xml_tv
\* source flag, with sid and t unchanged.
C1_ApplyReplacesMatched ==
    [][\A listing \in Listings :
          (apply_XMLTVListing(listing) /\ ap_pc' = "done") =>
              \A i \in 1..Len(epg_channels), j \in 1..Len(listing.channels) :
                  NameMatches(epg_channels[i], listing.channels[j]) =>
                      LET old == epg_channels[i]
                          r == get_channel_by_sid(epg_channels',
                                   Channel_getattr(old, "sid"))
                      IN  /\ ~r.raised
                          /\ Channel_getattr(r.chan, "xmltv_id") \in
                                 {listing.channels[k].id :
                                     k \in 1..Len(listing.channels)}
                          /\ HasSource(r.chan.sources, xml_tv)
                          /\ Channel_getattr(r.chan, "sid") =
                                 Channel_getattr(old, "sid")
                          /\ Channel_getattr(r.chan, "t") =
                                 Channel_getattr(old, "t")]_vars

\* C3: while _load_channel_details replaces records (remove, then append), a
\* get_channel_by_sid running in another thread for a sid that was in the
\* catalog when the lookup began never ends with "not found", and a lookup
\* that finds a record returns a whole record of that sid.
C3_ReaderNeverMissesRecord ==
    /\ rd_pc = "notfound" => ~rd_present0
    /\ rd_pc = "found" =>
           /\ Channel_getattr(rd_result, "sid") = rd_sid
           /\ HasSource(rd_result.sources, skyq_service_summary)

-----------------------------------------------------------------------------
(* Claims about merge_channels *)

ExceptionFields == {"sid", "c", "t", "xmltv_id"}

\* the value a record carries for a field (None when the key is missing)
FieldOf(chan, f) == IF f \in DOMAIN chan.chan_dict THEN chan.chan_dict[f] ELSE None

\* C9: for each of sid, c, t and xmltv_id, if exactly one of a, b has a
\* non-None value for the field, then merge_channels(a, b) and
\* merge_channels(b, a) both carry that value.
C9_NonNullWins ==
    chan_pc = "merged" =>
        \A f \in ExceptionFields :
            /\ (FieldOf(chan_a, f) # None /\ FieldOf(chan_b, f) = None) =>
                   /\ FieldOf(merged_ab, f) = FieldOf(chan_a, f)
                   /\ FieldOf(merged_ba, f) = FieldOf(chan_a, f)
            /\ (FieldOf(chan_b, f) # None /\ FieldOf(chan_a, f) = None) =>
                   /\ FieldOf(merged_ab, f) = FieldOf(chan_b, f)
                   /\ FieldOf(merged_ba, f) = FieldOf(chan_b, f)

\* a merge in which a alone defines sid and b alone defines xmltv_id
C9_Witness ==
    /\ chan_pc = "merged"
    /\ FieldOf(chan_a, "sid") # None /\ FieldOf(chan_b, "sid") = None
    /\ FieldOf(chan_b, "xmltv_id") # None /\ FieldOf(chan_a, "xmltv_id") = None
    /\ FieldOf(merged_ab, "sid") = FieldOf(chan_a, "sid")
    /\ FieldOf(merged_ba, "xmltv_id") = FieldOf(chan_b, "xmltv_id")

\* C10 as stated: merge_channels(a, b) and merge_channels(b, a) agree on
\* sid, c, t and xmltv_id for all records, also when both define the field.
C10_Commutative ==
    chan_pc = "merged" =>
        \A f \in ExceptionFields : FieldOf(merged_ab, f) = FieldOf(merged_ba, f)

\* C10 amended: the two merges agree on an exception field unless a and b
\* both define it with different values; in that case each merge carries
\* the value of its second argument.
C10_CommutativeUnlessClash ==
    chan_pc = "merged" =>
        \A f \in ExceptionFields :
            IF /\ FieldOf(chan_a, f) # None
               /\ FieldOf(chan_b, f) # None
               /\ FieldOf(chan_a, f) # FieldOf(chan_b, f)
            THEN /\ FieldOf(merged_ab, f) = FieldOf(chan_b, f)
                 /\ FieldOf(merged_ba, f) = FieldOf(chan_a, f)
            ELSE FieldOf(merged_ab, f) = FieldOf(merged_ba, f)

\* a merge of two records that define t with different values, and one of
\* two records of which only one defines xmltv_id
C10_Witness ==
    /\ chan_pc = "merged"
    /\ FieldOf(chan_a, "t") # None /\ FieldOf(chan_b, "t") # None
    /\ FieldOf(chan_a, "t") # FieldOf(chan_b, "t")
    /\ FieldOf(chan_a, "sid") # None /\ FieldOf(chan_b, "sid") = None
    /\ FieldOf(merged_ab, "sid") = FieldOf(merged_ba, "sid")

\* the value of key k after the plain union of x and y: y's when y has it
UnionValue(x, y, k) ==
    IF k \in DOMAIN y.chan_dict THEN y.chan_dict[k] ELSE x.chan_dict[k]

\* C11: the attribute keys of merge_channels(a, b) are the union of the keys
\* of a and of b, and for every key other than sid, c, t and xmltv_id the
\* merged value is b's value when b has the key and a's value otherwise
\* (stated for both argument orders).
C11_MergeIsUnion ==
    chan_pc = "merged" =>
        /\ DOMAIN merged_ab.chan_dict =
               (DOMAIN chan_a.chan_dict) \cup (DOMAIN chan_b.chan_dict)
        /\ DOMAIN merged_ba.chan_dict = DOMAIN merged_ab.chan_dict
        /\ \A k \in (DOMAIN merged_ab.chan_dict) \ ExceptionFields :
               /\ merged_ab.chan_dict[k] = UnionValue(chan_a, chan_b, k)
               /\ merged_ba.chan_dict[k] = UnionValue(chan_b, chan_a, k)

\* a and b both carry sf, with different values: each merge carries the sf
\* of its second argument
C11_Witness ==
    /\ chan_pc = "merged"
    /\ "sf" \in DOMAIN chan_a.chan_dict
    /\ "sf" \in DOMAIN chan_b.chan_dict
    /\ chan_a.chan_dict["sf"] # chan_b.chan_dict["sf"]
    /\ merged_ab.chan_dict["sf"] = chan_b.chan_dict["sf"]
    /\ merged_ba.chan_dict["sf"] = chan_a.chan_dict["sf"]

\* C12: merge_channels(a, b).sources equals a.sources | b.sources: the
\* merged record carries a source flag exactly when a or b carries it.
C12_SourcesAreOred ==
    chan_pc = "merged" =>
        /\ merged_ab.sources \in 0..7
        /\ merged_ba.sources = merged_ab.sources
        /\ \A flag \in {skyq_service_summary, skyq_service_detail, xml_tv} :
               HasSource(merged_ab.sources, flag) <=>
                   (HasSource(chan_a.sources, flag) \/ HasSource(chan_b.sources, flag))

\* a record with summary and detail data merged with an XMLTV record: all
\* three flags, in both orders
C12_Witness ==
    /\ chan_pc = "merged"
    /\ chan_a.sources = skyq_service_summary + skyq_service_detail
    /\ chan_b.sources = xml_tv
    /\ merged_ab.sources = skyq_service_summary + skyq_service_detail + xml_tv
    /\ merged_ba.sources = merged_ab.sources


\* C13: merging is associative: merge_channels(merge_channels(a, b), c) has
\* the same attributes and the same sources as
\* merge_channels(a, merge_channels(b, c)).
C13_MergeIsAssociative ==
    chan_pc = "merged3" =>
        /\ merged_ab_c.chan_dict = merged_a_bc.chan_dict
        /\ merged_ab_c.sources = merged_a_bc.sources

\* a summary record that defines t, a record with detail data and an XMLTV
\* record folded in that order (summary, detail, XMLTV)
C13_Witness ==
    /\ chan_pc = "merged3"
    /\ FieldOf(chan_a, "t") # None
    /\ FieldOf(chan_b, "t") = None
    /\ chan_a.sources = skyq_service_summary
    /\ chan_b.sources = skyq_service_detail
    /\ chan_c.sources = xml_tv
    /\ merged_ab_c.sources = skyq_service_summary + skyq_service_detail + xml_tv
    /\ FieldOf(merged_ab_c, "t") = FieldOf(chan_a, "t")
    /\ FieldOf(merged_a_bc, "xmltv_id") = FieldOf(chan_c, "xmltv_id")

-----------------------------------------------------------------------------
(* Claims about the JSON form of a record *)

\* C14: round trip: channel_from_json(c.as_json()) == c for every record c
\* built by the factories, the load_* methods and merge_channels from
\* payloads whose values are strings, integers, booleans or URLs.
C14_JsonRoundTrip ==
    chan_pc = "roundtrip" =>
        /\ json_out.raised = ""
        /\ Channel_eq(json_out.chan, chan_a)

\* the document lacks the type tag '__type__' == '__channel__'
LacksTypeTag(doc) ==
    ~("__type__" \in DOMAIN doc /\ doc["__type__"] = JStr(TypeTag.v))

\* C15: channel_from_json rejects every document whose top-level object
\* lacks the type tag '__type__' == '__channel__' (missing or different): it
\* raises ValueError and returns no record.
C15_MissingTagIsValueError ==
    (chan_pc = "parsed" /\ LacksTypeTag(json_doc)) => json_out.raised = "ValueError"

-----------------------------------------------------------------------------
(* Claims about == and hash() of records *)

\* C16: no operation changes an existing record.  Each call of
\* load_skyq_summary_data, load_skyq_detail_data, load_xmltv_data and
\* merge_channels returns an object that did not exist before, whose dict is
\* shared with no other object, and every object that existed before the
\* call still has the same dict, with the same items, and the same sources.
C16_OperationsLeaveInputsUnchanged ==
    [][ /\ heap_op'.result \notin DOMAIN heap_objs
        /\ \A id \in DOMAIN heap_objs :
               /\ id \in DOMAIN heap_objs'
               /\ heap_objs'[id] = heap_objs[id]
               /\ heap_dicts'[heap_objs'[id].chan_dict] =
                      heap_dicts[heap_objs[id].chan_dict]
               /\ heap_objs'[heap_op'.result].chan_dict # heap_objs[id].chan_dict
      ]_vars

\* a merge has just returned: its first input came from load_xmltv_data,
\* its second from load_skyq_summary_data, and the merged record differs
\* from both of them
C16_Witness ==
    /\ heap_op.name = "merge_channels"
    /\ LET a == HeapValue(Heap, heap_op.self)
           b == HeapValue(Heap, heap_op.other)
           m == HeapValue(Heap, heap_op.result)
       IN  /\ a.sources = xml_tv
           /\ b.sources = skyq_service_summary
           /\ b.chan_dict["t"] # None
           /\ m # a
           /\ m # b

\* C17: two records compare equal if and only if their attribute maps are
\* equal and their sources flags are equal (in both orders of ==); a record
\* never compares equal to a value that is not a record.
C17_EqualityIsAttributesAndSources ==
    chan_pc = "compared" =>
        /\ eq_out.ab <=> (/\ \A k \in (DOMAIN chan_a.chan_dict) \cup (DOMAIN chan_b.chan_dict) :
                                 /\ k \in DOMAIN chan_a.chan_dict
                                 /\ k \in DOMAIN chan_b.chan_dict
                                 /\ chan_a.chan_dict[k] = chan_b.chan_dict[k]
                          /\ \A flag \in {skyq_service_summary, skyq_service_detail, xml_tv} :
                                 HasSource(chan_a.sources, flag) <=>
                                     HasSource(chan_b.sources, flag))
        /\ eq_out.ba = eq_out.ab
        /\ ~eq_out.a_str

\* two records with the same attributes and different sources (a blank
\* record and the record of an empty payload) compare unequal
C17_Witness ==
    /\ chan_pc = "compared"
    /\ chan_a.chan_dict = chan_b.chan_dict
    /\ chan_a.sources # chan_b.sources
    /\ ~eq_out.ab
    /\ ~eq_out.a_str

\* C18: the hash of a record depends only on its display name: when a is a
\* summary record with title t and b an XMLTV record whose
\* xmltv_display_name equals t, then a, a after load_skyq_detail_data, b and
\* every merge of them hash equally; and records with no source hash equally.
C18_HashIsByName ==
    chan_pc = "compared" =>
        /\ \A n \in {"blank", "a_no_source"} :
               /\ hash_out[n].raised = ""
               /\ hash_out[n].h = hash_out["blank"].h
        /\ (/\ HasSource(chan_a.sources, skyq_service_summary)
            /\ ~HasSource(chan_a.sources, xml_tv)
            /\ FieldOf(chan_a, "t") # None
            /\ chan_b.sources = xml_tv
            /\ FieldOf(chan_b, "xmltv_display_name") = FieldOf(chan_a, "t"))
           => \A n \in {"a", "b", "a_detail", "ab", "ba", "a_detail_b", "b_a_detail"} :
                  /\ hash_out[n].raised = ""
                  /\ hash_out[n].h = py_hash(FieldOf(chan_a, "t"))

\* a summary record and an XMLTV record of the same name: the two, the
\* record with detail data and a merge all have the hash of the name
C18_Witness ==
    /\ chan_pc = "compared"
    /\ chan_a.sources = skyq_service_summary
    /\ chan_b.sources = xml_tv
    /\ FieldOf(chan_a, "t") # None
    /\ FieldOf(chan_b, "xmltv_display_name") = FieldOf(chan_a, "t")
    /\ hash_out["a"].h = hash_out["b"].h
    /\ hash_out["a_detail"].h = hash_out["a"].h
    /\ hash_out["ab"].h = hash_out["a"].h
    /\ hash_out["ab"].raised = ""

-----------------------------------------------------------------------------
(* Claims about XMLTVListing.fetch and Listing.fetch *)

\* C19: a call of get_channel_by_sid (one that leaves the catalog and the
\* load count as they were) ends with ValueError exactly when the catalog is
\* empty or holds no record whose sid is str(sid); otherwise it returns a
\* record that is in the catalog and whose sid is str(sid), for a string or
\* an integer argument.  It never returns a record that is not in the catalog.
C19_LookupFindsOrRaises ==
    [][ (epg_nloads' = epg_nloads /\ rd_pc' \in {"found", "notfound"}) =>
          LET present == \E i \in 1..Len(epg_channels) :
                             Channel_getattr(epg_channels[i], "sid") = str(rd_arg')
          IN  /\ (rd_pc' = "notfound") <=> (epg_channels = <<>> \/ ~present)
              /\ (rd_pc' = "found") =>
                     /\ \E i \in 1..Len(epg_channels) :
                            epg_channels[i] = rd_result'
                     /\ Channel_getattr(rd_result', "sid") = str(rd_arg')
      ]_vars

\* a lookup by the integer 2 has returned the record of sid '2', which has
\* its details loaded, from a catalog of two records
C19_Witness ==
    /\ rd_pc = "found"
    /\ rd_arg = PyInt(2)
    /\ Len(epg_channels) = 2
    /\ Channel_getattr(rd_result, "sid") = Str(2)
    /\ HasSource(rd_result.sources, skyq_service_detail)
    /\ \E i \in 1..Len(epg_channels) : epg_channels[i] = rd_result

\* C20: after any sequence of _load_channel_list and load_skyq_channel_data
\* calls the catalog holds at most one record for each sid.
C20_OneRecordPerSid ==
    \A i, j \in 1..Len(epg_channels) :
        Channel_getattr(epg_channels[i], "sid") =
            Channel_getattr(epg_channels[j], "sid") => i = j

\* C21: a call of get_channel fails exactly when limit < 1 or the catalog
\* is empty, with ValueError; on a loaded catalog with limit >= 1 it returns
\* a list of records for every fuzzy_match, include_timeshift and
\* quality_flag, the default arguments included.
C21_GetChannelFailsOnlyOnBadLimitOrEmpty ==
    [][ (epg_channels' = epg_channels /\ gc_args' # <<>>) =>
          /\ (gc_out'.raised # "") <=>
                 (gc_args'.limit < 1 \/ epg_channels = <<>>)
          /\ gc_out'.raised \in {"", "ValueError"}
      ]_vars

\* C22: a call of get_channel with fuzzy_match = False that returns, returns
\* only records whose name is exactly the requested name.
C22_ExactMatchWithoutFuzzy ==
    [][ (epg_channels' = epg_channels /\ gc_args' # <<>>
           /\ ~gc_args'.fuzzy_match /\ gc_out'.raised = "") =>
          \A i \in 1..Len(gc_out'.channels) :
              Channel_getattr(gc_out'.channels[i], "name") = gc_args'.name
      ]_vars

\* the XMLTVListing object of an id
ListingById(id) == CHOOSE l \in XmltvListings : l.id = id

\* whether a job of the list is for a listing of that URL
Scheduled(jobs, url) == \E i \in 1..Len(jobs) : jobs[i].listing.url = url

\* C23: after any sequence of add and delete calls the job list holds at
\* most one job for each URL, each job with a thread of its own; and an add
\* for a listing whose URL is already scheduled raises ValueError and
\* leaves the job list and the cron threads as they were.
C23_OneJobPerListing ==
    [][ /\ \A i, j \in 1..Len(cron_jobs') :
               (cron_jobs'[i].listing.url = cron_jobs'[j].listing.url
                \/ cron_jobs'[i].thread = cron_jobs'[j].thread) => i = j
        /\ Len(cron_threads') = Len(cron_jobs')
        /\ (/\ cron_ncalls' = cron_ncalls + 1
            /\ cron_out'.op = "add"
            /\ Scheduled(cron_jobs, ListingById(cron_out'.listing).url)) =>
               /\ cron_out'.raised = "ValueError"
               /\ cron_jobs' = cron_jobs
               /\ cron_threads' = cron_threads
      ]_vars

\* two jobs are scheduled, and the last call, an add of another
\* XMLTVListing object made for the URL of one of them, raised ValueError
C23_Witness ==
    /\ cron_out.op = "add"
    /\ cron_out.raised = "ValueError"
    /\ Len(cron_jobs) = 2
    /\ \E i \in 1..Len(cron_jobs) :
           /\ cron_jobs[i].listing.url = ListingById(cron_out.listing).url
           /\ cron_jobs[i].listing.id # cron_out.listing

\* C24: a delete for a scheduled listing returns normally, and after it the
\* thread of the job is stopped and the job list holds no job for the
\* listing.
C24_DeleteRemovesJob ==
    [][ (/\ cron_ncalls' = cron_ncalls + 1
         /\ cron_out'.op = "delete"
         /\ Scheduled(cron_jobs, ListingById(cron_out'.listing).url)) =>
           /\ cron_out'.raised = ""
           /\ ~Scheduled(cron_jobs', ListingById(cron_out'.listing).url)
           /\ \A i \in 1..Len(cron_jobs) :
                  cron_jobs[i].listing.url = ListingById(cron_out'.listing).url
                      => cron_threads'[cron_jobs[i].thread].loop = "closed"
      ]_vars

\* C25: the cronjobs property returns, without raising, the pair (listing,
\* cronspec) of each scheduled job, in the order the jobs were added.
C25_CronjobsListsJobs ==
    cron_out.op = "cronjobs" =>
        /\ cron_out.raised = ""
        /\ cron_out.value =
               [i \in 1..Len(cron_jobs) |->
                   <<cron_jobs[i].listing, cron_jobs[i].schedule>>]

\* the outcomes of a cycle that failed
CycleFailures == {"TypeError", "fetch_raised", "parse_raised", "merge_raised"}

C28_ShutdownLeavesNothingRunning ==
    at_pc = "returned" =>
        /\ at_loop = "stopped"
        /\ \A i \in 1..Len(at_tasks) :
               /\ at_tasks[i].state \in {"done", "cancelled"}
               /\ ~at_tasks[i].after

\* C29: a fetch that succeeds leaves in last_modified the parsed
\* Last-Modified header of its response, and None when the response had no
\* such header.
C29_LastModifiedOfThisFetch ==
    [][ \A t \in Tasks :
          (fetcher[t].pc = "fetching" /\ fetcher'[t].pc = "done") =>
             xl_last_modified' =
                 IF fetcher[t].resp.last_modified = None THEN None
                 ELSE parse_http_date(fetcher[t].resp.last_modified)
      ]_vars

\* C30: a parse_channels call made while downloaded is false or downloading
\* is true raises OSError (or its subclass FileNotFoundError), does not read
\* the file and yields no channel.
C30_ParseOnlyAfterDownload ==
    (xp_out.called /\ (~xp_out.downloaded \/ xp_out.downloading)) =>
        /\ xp_out.raised \in {"OSError", "FileNotFoundError"}
        /\ ~xp_out.read
        /\ xp_out.channels = <<>>

\* C33: within a transfer, chunk_processor leaves decompression for raw
\* writing on the first chunk only; after a chunk that was decompressed, no
\* chunk is written raw.
C33_FallbackOnFirstChunkOnly ==
    [][ \A t \in Tasks :
          (/\ fetcher[t].pc = "fetching"
           /\ fetcher'[t].pc = "fetching"
           /\ fetcher[t].compressed_payload
           /\ ~fetcher'[t].compressed_payload) => fetcher[t].pos = 0
      ]_vars

\* C34: every range request of a fetch asks for at most range_size bytes.
C34_RequestWithinRangeSize ==
    \A i \in 1..Len(lf_requests) :
        lf_requests[i].byte_stop - lf_requests[i].byte_start + 1 <= lf_range_size

\* C35: downloading is true whenever a fetch of the listing is in progress.
C35_DownloadingWhileAnyFetchRuns == Fetching # {} => xl_downloading

\* the job list with a new job for the listing, run by a new thread
JobAdded(jobs, jobs1, threads, threads1, id) ==
    /\ Len(jobs1) = Len(jobs) + 1
    /\ SubSeq(jobs1, 1, Len(jobs)) = jobs
    /\ jobs1[Len(jobs1)].listing.id = id
    /\ Len(threads1) = Len(threads) + 1
    /\ SubSeq(threads1, 1, Len(threads)) = threads
    /\ jobs1[Len(jobs1)].thread = Len(threads1)
    /\ threads1[Len(threads1)].loop = "running"

\* C38 amended: an add_XMLTV_listing_cronjob call that raises ValueError
\* (empty catalog, listing already scheduled, bad cronspec) leaves the job
\* list and the cron threads as they were; a call whose run_now cycle
\* raises has added the job and started its thread before the cycle ran,
\* and leaves them so.
C38_FailedAddByCause ==
    [][ (/\ cron_ncalls' = cron_ncalls + 1
         /\ cron_out'.op = "add"
         /\ cron_out'.raised # "") =>
           IF cron_out'.raised = "ValueError"
           THEN /\ cron_jobs' = cron_jobs
                /\ cron_threads' = cron_threads
           ELSE JobAdded(cron_jobs, cron_jobs', cron_threads, cron_threads',
                         cron_out'.listing)
      ]_vars

\* an add with run_now whose cycle raised, made when a job was scheduled
\* already: two jobs are on the list
C38_Witness ==
    /\ cron_out.op = "add"
    /\ cron_out.raised \in CycleOutcomes \ {"applied"}
    /\ Len(cron_jobs) = 2
    /\ cron_jobs[2].listing.id = cron_out.listing

\* C38 as stated: an add_XMLTV_listing_cronjob call that raises leaves the
\* job list and the cron threads as they were before the call.
C38_FailedAddChangesNothing ==
    [][ (/\ cron_ncalls' = cron_ncalls + 1
         /\ cron_out'.op = "add"
         /\ cron_out'.raised # "") =>
           /\ cron_jobs' = cron_jobs
           /\ cron_threads' = cron_threads
      ]_vars

\* C37: hash() raises on no record made by the factories, by
\* load_skyq_detail_data or by merge_channels: the assert of __hash__ holds
\* and the key it reads is there.
C37_HashNeverRaises ==
    chan_pc = "compared" =>
        \A n \in DOMAIN hash_out \ {"a_no_source"} : hash_out[n].raised = ""

\* C31 amended: two XMLTVListing objects made for the same URL are equal,
\* have equal hashes and the same file name; their file paths are the same
\* exactly when they were given the same directory.
C31_SameUrlSameName ==
    \A i, j \in 1..Len(xi_objs) :
        xi_objs[i].url = xi_objs[j].url =>
            /\ XMLTVListing_eq(xi_objs[i], xi_objs[j])
            /\ XMLTVListing_hash(xi_objs[i]) = XMLTVListing_hash(xi_objs[j])
            /\ xi_objs[i].filename = xi_objs[j].filename
            /\ (file_path(xi_objs[i]) = file_path(xi_objs[j]))
                   <=> (xi_objs[i].path = xi_objs[j].path)

\* two objects of one URL, made with different path arguments
C31_Witness ==
    /\ Len(xi_objs) >= 2
    /\ xi_objs[1].url = xi_objs[2].url
    /\ xi_objs[1].path # xi_objs[2].path

\* C31 as stated: two XMLTVListing objects made for the same URL are equal,
\* have equal hashes and the same file path, whatever path each was given.
C31_SameUrlSamePath ==
    \A i, j \in 1..Len(xi_objs) :
        xi_objs[i].url = xi_objs[j].url =>
            /\ XMLTVListing_eq(xi_objs[i], xi_objs[j])
            /\ XMLTVListing_hash(xi_objs[i]) = XMLTVListing_hash(xi_objs[j])
            /\ file_path(xi_objs[i]) = file_path(xi_objs[j])

\* the threads that are running run_forever
AliveThreads == {i \in 1..Len(sg_threads) : sg_threads[i] = "alive"}

\* C32: every construction returns the same object; there is one event loop
\* and at most one live loop thread; and a construction made while the
\* thread is alive starts no thread and leaves the loop as it is.
C32_Singleton ==
    [][ /\ \A i \in 1..Len(sg_refs') : sg_refs'[i] = sg_refs'[1]
        /\ sg_loops' <= 1
        /\ Cardinality(AliveThreads') <= 1
        /\ (Len(sg_refs') = Len(sg_refs) + 1 /\ IsAlive(sg_threads, sg_thread)) =>
               /\ sg_threads' = sg_threads
               /\ sg_thread' = sg_thread
               /\ sg_loops' = sg_loops
               /\ sg_loop' = sg_loop
      ]_vars

\* three constructions have been made with the thread alive
C32_Witness ==
    /\ Len(sg_refs) = 3
    /\ Len(sg_threads) = 1
    /\ IsAlive(sg_threads, sg_thread)
    /\ sg_loop = "running"

\* C36: once a construction has followed a shutdown() (the sentinel is false
\* again), the singleton has a live thread running its loop, and keeps it.
C36_RestartLeavesRunningLoop ==
    (sg_instance # 0 /\ ~sg_sentinel) =>
        /\ sg_loop = "running"
        /\ IsAlive(sg_threads, sg_thread)

\* C39: when the constructor of a CronThread has returned, the loop of the
\* thread has been created, and crontab() and stop() work on that loop.
C39_LoopReadyAfterConstructor ==
    \A i \in 1..Len(ct_threads) :
        ct_threads[i].pc = "returned" =>
            /\ ct_threads[i].loop # 0
            /\ ct_threads[i].crontab \in {"none", "own"}
            /\ ct_threads[i].stop \in {"none", "own"}

\* C40: the listener hands each message received from the websocket to the
\* handler exactly once, in the order received: an iteration whose recv
\* timed out and whose ping was answered invokes no handler and raises
\* nothing.
C40_EachPayloadHandledOnce ==
    /\ st_raised = ""
    /\ Len(st_handled) = Len(st_received)
    /\ \A i \in 1..Len(st_received) :
           st_handled[i] = status_json_loads(st_received[i])

\* C2: at most one fetch of the same XMLTVListing is in flight at any time,
\* however the fetches are triggered (cron tick, run_now, direct call): a
\* fetch begun while another has not finished is skipped or rejected.
C2_AtMostOneFetchInFlight == Cardinality(Fetching) <= 1

\* C4: whenever XMLTVListing.fetch returns successfully, the file at
\* file_path holds exactly the document served in that fetch (decompressed
\* when it was gzip), whatever earlier fetches did, failed ones included.
C4_FileIsServedDocument ==
    \A t \in fetchers :
        (fetcher[t].pc = "done" /\ fetcher[t].resp.status = 200) =>
            fs_dest = FileOf(fetcher[t].resp.doc)

\* C5: for XMLTVListing.fetch and for Listing.fetch, a fetch that fails
\* leaves the file at file_path exactly as it was before that fetch began
\* (absent, or the content of the last successful fetch).  This states it
\* for Listing.fetch.
C5_FailedFetchKeepsFile == lf_pc = "failed" => lf_file = lf_file0

\* C5, the half on XMLTVListing.fetch with its one caller: a failed fetch
\* leaves the file at file_path as it was.
C5_XmltvFailedFetchKeepsFile ==
    \A t \in fetchers : fetcher[t].pc = "failed" => fs_dest = fetcher[t].dest0

\* C6: downloading is true from the moment fetch begins; a fetch that
\* succeeds ends with downloading false and downloaded true; a fetch that
\* raises ends with downloading false and downloaded as it was before.
C6_LifecycleFlags ==
    \A t \in fetchers :
        /\ fetcher[t].pc = "fetching" => xl_downloading
        /\ fetcher[t].pc = "done" => (~xl_downloading /\ xl_downloaded)
        /\ fetcher[t].pc = "failed" =>
               (~xl_downloading /\ xl_downloaded = fetcher[t].downloaded0)

\* C7: when the server answers with an error status (404, 500), fetch
\* raises: the body of the error response is not stored as the listing's
\* file and the listing is not marked downloaded.
C7_ErrorStatusRaises ==
    \A t \in fetchers :
        (fetcher[t].pc \in {"done", "failed"} /\ fetcher[t].resp.status # 200) =>
            /\ fetcher[t].pc = "failed"
            /\ fs_dest = fetcher[t].dest0
            /\ xl_downloaded = fetcher[t].downloaded0

\* the bytes first..last of the document the server holds (0-based)
DocRange(first, last) ==
    SubSeq(lf_server.doc, first + 1,
           IF last < Len(lf_server.doc) - 1 THEN last + 1 ELSE Len(lf_server.doc))

\* C8: against a server that answers every range request with 206 and a
\* Content-Range total T, Listing.fetch with any range_size >= 1 asks for
\* contiguous, non-overlapping ranges that start at 0 and never start at or
\* beyond T (so no request is refused and there are at most T of them), has
\* written bytes 0..byte_start-1 after each request, and ends with the file
\* equal to the document; against a server that serves the document as one
\* 200 response the file is the same document and one request is made.
C8_RangeFetchWritesDocument ==
    /\ (lf_pc \in {"fetching", "done", "failed"} /\ lf_server.mode = "range") =>
           /\ \A i \in 1..Len(lf_requests) :
                  /\ lf_requests[i].status = 206
                  /\ lf_requests[i].byte_start < Len(lf_server.doc)
                  /\ lf_requests[i].byte_start <= lf_requests[i].byte_stop
                  /\ lf_requests[i].byte_start =
                         IF i = 1 THEN 0 ELSE lf_requests[i - 1].byte_stop + 1
           /\ Len(lf_requests) <= Len(lf_server.doc)
           /\ lf_pc = "fetching" =>
                  /\ lf_byte_start < Len(lf_server.doc)
                  /\ lf_byte_start =
                         IF lf_requests = <<>> THEN 0
                         ELSE lf_requests[Len(lf_requests)].byte_stop + 1
                  /\ lf_file = FileOf(DocRange(0, lf_byte_start - 1))
           /\ lf_pc = "done" =>
                  /\ lf_file = FileOf(lf_server.doc)
                  /\ lf_requests[Len(lf_requests)].byte_stop >= Len(lf_server.doc) - 1
    /\ (lf_pc = "done" /\ lf_server.mode = "full") =>
           /\ lf_file = FileOf(lf_server.doc)
           /\ Len(lf_requests) = 1

\* a document of four bytes or more fetched in three or more ranges, the
\* last of them cut short by the end of the document
C8_Witness ==
    /\ lf_pc = "done"
    /\ lf_server.mode = "range"
    /\ Len(lf_server.doc) >= 4
    /\ Len(lf_requests) >= 3
    /\ lf_requests[Len(lf_requests)].byte_stop > Len(lf_server.doc) - 1
    /\ lf_file = FileOf(lf_server.doc)

====
